---- MODULE Spec2Model ----
(***************************************************************************)
(* Layout logic of the CredSuvidha brand-kit generators                    *)
(*   src/assets/brandkit/generate_brandkit_pptx.py  (slide deck)           *)
(*   src/assets/brandkit/generate_brandkit_pdf.py   (paginated document)   *)
(*                                                                         *)
(* Slide lengths are in EMU, as python-pptx keeps them: Inches(v) is       *)
(* int(v * 914400).  Inch values are written in hundredths of an inch, so  *)
(* Inches(h) is h * 9144; for every literal of the slide generator that is *)
(* the value int() yields.  Gradient stop fractions are written in         *)
(* hundredths (0.33 is 33).  PDF lengths that come out of a division are   *)
(* kept as exact fractions [num, den].                                     *)
(***************************************************************************)
EXTENDS Integers, Sequences, FiniteSets, TLC

VARIABLES
    generator,      \* which entry point runs: "pptx" or "pdf"
    \* -- gradient card of build_gradients_slide (pptx) --
    card,           \* [x, y, card_w, card_h] of the gradient card being drawn
    color_stops,    \* the card's (color, fraction) stops
    k,              \* number of stops the segment loop has consumed
    cx,             \* running left edge of the next segment
    segs,           \* shapes added by the segment loop, in order
    \* -- create_gradient_drawing (pdf) --
    colors,         \* the colour list argument
    width,          \* the width argument (0 stands for None)
    drawing,        \* rectangles added to the Drawing, in order
    pdfpc,          \* "idle", "call", "returned" or "raised"
    \* -- one row or grid of equally sized cells on a slide (pptx) --
    grid,           \* which loop lays the cells out
    items,          \* length of the list the loop runs over
    idx,            \* number of items the loop has placed
    placed,         \* the cells placed so far, in order: [x, y, w, h]
    \* -- create_color_swatch_table (pdf) --
    colors_list,    \* the (name, hex_code, usage) triples argument
    data,           \* the table rows built so far
    table,          \* the returned Table: [data, background], or NoTable
    \* -- swatch rows of build_color_palette_slide (pptx) --
    family,         \* which swatch list is drawn
    swatches,       \* the (hex_code, label) list
    shown,          \* per swatch drawn: the swatch shape and its hex text
    \* -- both palette loops --
    pidx,           \* number of list entries the loop has consumed
    ppc,            \* "idle", "loop" or "returned"
    \* -- one run of a generator: build_presentation / module import + build_pdf --
    logo_exists,    \* os.path.exists(LOGO_PATH)
    tokens_file,    \* brand-tokens.json on disk: "ok", "absent" or "malformed"
    bpc,            \* position of the run
    step,           \* number of slide builders build_presentation has called
    slides,         \* prs.slides: the slides added so far
    tokens,         \* the module global `tokens` of the PDF generator
    hex_colors,     \* the hex strings HexColor has been called with (PDF generator)
    story,          \* the story list of build_pdf
    pages,          \* the pages doc.build has rendered so far
    npages,         \* number of pages the story flows into
    overflow,       \* story indexes after which the page is full
    output,         \* the file at OUTPUT_PATH
    writes,         \* times this run has opened OUTPUT_PATH for writing
    stdout,         \* lines printed by this run
    error,          \* the exception that ended the run, or "none"
    run,            \* 1 for the first build, 2 for a repeated build
    first           \* what the first build produced: its layout, its slides or
                    \* pages as drawn, the hex strings it parsed, its output file

gradVars == <<card, color_stops, k, cx, segs, colors, width, drawing, pdfpc>>
gridVars == <<grid, items, idx, placed>>
palVars == <<colors_list, data, table, family, swatches, shown, pidx, ppc>>
buildVars == <<logo_exists, tokens_file, bpc, step, slides, tokens, hex_colors, writes, overflow, story, pages, npages,
               output, stdout, error, run, first>>
vars == <<generator, gradVars, gridVars, palVars, buildVars>>

----------------------------------------------------------------------------
(* Bounds of the model *)

MaxStops == 3
MaxItems == 10
MaxRows == 3

----------------------------------------------------------------------------
(* Units *)

\* pptx.util.Inches: int(inches * 914400), h in hundredths of an inch
Inches(h) == h * 9144

\* All sequences over S of length 0..n
SeqsUpTo(S, n) == UNION {[1..m -> S] : m \in 0..n}

RECURSIVE SumSeq(_)
SumSeq(s) == IF s = <<>> THEN 0 ELSE s[1] + SumSeq(Tail(s))

----------------------------------------------------------------------------
(* build_gradients_slide: the segment loop *)

\* card_w, card_h, start_y of build_gradients_slide
card_w == Inches(580)
card_h == Inches(70)
start_y == Inches(165)

\* col, row of gradient card i (0-based)
GradientCol(i) == IF i < 3 THEN 0 ELSE 1
GradientRow(i) == i % 3

\* x, y of gradient card i
GradientX(i) == Inches(80) + GradientCol(i) * (card_w + Inches(30))
GradientY(i) == start_y + GradientRow(i) * (card_h + Inches(55))

\* The six cards the slide draws
SlideCards ==
    {[x |-> GradientX(i), y |-> GradientY(i), card_w |-> card_w, card_h |-> card_h] :
        i \in 0..5}

\* A small card in abstract length units (width 581 at x = 80)
UnitCards == {[x |-> 80, y |-> 0, card_w |-> 581, card_h |-> 40]}

GradientCards == SlideCards \cup UnitCards

\* Stop fractions in hundredths.  For these fractions and the card widths
\* above the double product total_w * fraction truncates to the same integer
\* as the exact product does.
StopFractions == {25, 33, 34, 50}
StopColors == {"BLUE_PRIMARY", "BLUE_BRIGHT"}
Stops == [color : StopColors, fraction : StopFractions]

\* seg_w = ceil(total_w * fraction): the product rounded up
SegWidthCeil(total_w, fraction) == (total_w * fraction + 99) \div 100

\* seg_w = int(total_w * fraction)
SegWidth(total_w, fraction) == (total_w * fraction) \div 100

\* A running edge that leaves one unit between consecutive segments
NextCxGap(c, seg_w) == c + seg_w + 1

\* cx += seg_w
NextCx(c, seg_w) == c + seg_w

\* One iteration of `for color, fraction in color_stops`
GradientSegment ==
    /\ generator = "pptx"
    /\ k < Len(color_stops)
    /\ LET stop == color_stops[k + 1]
           total_w == card.card_w
           seg_w == SegWidth(total_w, stop.fraction)
       IN  /\ segs' = Append(segs, [left |-> cx, top |-> card.y, width |-> seg_w,
                                    height |-> card.card_h, fill |-> stop.color])
           /\ cx' = NextCx(cx, seg_w)
    /\ k' = k + 1
    /\ UNCHANGED <<generator, card, color_stops, colors, width, drawing, pdfpc>>
    /\ UNCHANGED <<gridVars, palVars, buildVars>>

----------------------------------------------------------------------------
(* create_gradient_drawing *)

\* CONTENT_WIDTH = PAGE_WIDTH - MARGIN_LEFT - MARGIN_RIGHT, in 1/100 mm:
\* A4 is 210 mm wide and 0.75 inch is 19.05 mm
PAGE_WIDTH == 21000
MARGIN_LEFT == 1905
MARGIN_RIGHT == 1905

\* The content width with the right margin left in
ContentWidthToPageEdge == PAGE_WIDTH - MARGIN_LEFT

CONTENT_WIDTH == PAGE_WIDTH - MARGIN_LEFT - MARGIN_RIGHT

PdfColors == {"#1a6ef5", "#338dff"}
PdfWidths == {0, 9000}

Frac(n, d) == [num |-> n, den |-> d]
FracEq(a, b) == a.num * b.den = b.num * a.den
FracAdd(a, b) == Frac(a.num * b.den + b.num * a.den, a.den * b.den)

\* w = width: the width as given, without the content width as default
DrawingWidthAsGiven(wd) == wd

\* w = width or CONTENT_WIDTH
DrawingWidth(wd) == IF wd = 0 THEN CONTENT_WIDTH ELSE wd

\* Rect(i * segment_w, 16, segment_w, height, fillColor=HexColor(color))
\* with segment_w = w / len(colors); i is 0-based
GradientRect(i, w, n, color) ==
    [x |-> Frac(i * w, n), y |-> 16, width |-> Frac(w, n), height |-> 40,
     fillColor |-> color]

CreateGradientDrawing ==
    /\ generator = "pdf"
    /\ pdfpc = "call"
    /\ IF Len(colors) = 0
         THEN \* w / len(colors) raises ZeroDivisionError
              /\ pdfpc' = "raised"
              /\ drawing' = <<>>
         ELSE /\ pdfpc' = "returned"
              /\ drawing' = [j \in 1..Len(colors) |->
                               GradientRect(j - 1, DrawingWidth(width), Len(colors),
                                            colors[j])]
    /\ UNCHANGED <<generator, card, color_stops, k, cx, segs, colors, width>>
    /\ UNCHANGED <<gridVars, palVars, buildVars>>

----------------------------------------------------------------------------
(* Gradient specification: one gradient card, or one gradient drawing *)

NoCard == [x |-> 0, y |-> 0, card_w |-> 0, card_h |-> 0]

\* No gradient is being drawn
GradientIdle ==
    /\ card = NoCard /\ color_stops = <<>> /\ k = 0 /\ cx = 0 /\ segs = <<>>
    /\ colors = <<>> /\ width = 0 /\ drawing = <<>> /\ pdfpc = "idle"

\* No cell loop is running
GridIdle == grid = "none" /\ items = 0 /\ idx = 0 /\ placed = <<>>

NoTable == [data |-> <<>>, background |-> <<>>]

\* No palette is being assembled
PaletteIdle ==
    /\ colors_list = <<>> /\ data = <<>> /\ table = NoTable
    /\ family = "none" /\ swatches = <<>> /\ shown = <<>>
    /\ pidx = 0 /\ ppc = "idle"

\* No generator run is in progress
BuildIdle ==
    /\ logo_exists = FALSE /\ tokens_file = "ok" /\ bpc = "idle" /\ step = 0
    /\ slides = <<>> /\ tokens = "unloaded" /\ hex_colors = {}
    /\ story = <<>> /\ pages = <<>>
    /\ npages = 0 /\ output = [status |-> "absent", size |-> 0]
    /\ writes = 0 /\ overflow = {} /\ stdout = <<>> /\ error = "none"
    /\ run = 1 /\ first = <<>>

InitGradient ==
    /\ generator \in {"pptx", "pdf"}
    /\ IF generator = "pptx"
         THEN /\ card \in GradientCards
              /\ color_stops \in SeqsUpTo(Stops, MaxStops)
              /\ colors = <<>> /\ width = 0 /\ pdfpc = "idle"
         ELSE /\ card = NoCard
              /\ color_stops = <<>>
              /\ colors \in SeqsUpTo(PdfColors, MaxStops)
              /\ width \in PdfWidths
              /\ pdfpc = "call"
    /\ k = 0
    /\ cx = card.x
    /\ segs = <<>>
    /\ drawing = <<>>
    /\ GridIdle
    /\ PaletteIdle
    /\ BuildIdle

NextGradient == GradientSegment \/ CreateGradientDrawing

SpecGradient == InitGradient /\ [][NextGradient]_vars

----------------------------------------------------------------------------
(* Properties of the gradient approximation *)

Fractions(stops) == [j \in 1..Len(stops) |-> stops[j].fraction]
Widths(ss) == [j \in 1..Len(ss) |-> ss[j].width]

\* The segment loop has run to its end on a gradient with at least one stop
\* whose fractions sum to 1.0
LoopDoneOnUnitSum ==
    /\ generator = "pptx"
    /\ Len(color_stops) > 0
    /\ k = Len(color_stops)
    /\ SumSeq(Fractions(color_stops)) = 100

\* Python round(): nearest integer of n / d, ties to the even one (n, d > 0)
PyRound(n, d) ==
    LET q == n \div d
        r == n % d
    IN  IF 2 * r < d THEN q
        ELSE IF 2 * r > d THEN q + 1
        ELSE IF q % 2 = 0 THEN q ELSE q + 1

\* C1: for every gradient whose stop fractions sum to 1.0 the emitted segment
\* widths sum exactly to the target width W, the right edge of the last
\* segment being the right edge of the target rectangle (stated here for the
\* gradient cards of the slide, the 0.33/0.34/0.33 gradients among them).
C1_WidthsSumToW ==
    (LoopDoneOnUnitSum /\ card \in SlideCards) =>
        /\ SumSeq(Widths(segs)) = card.card_w
        /\ segs[Len(segs)].left + segs[Len(segs)].width = card.x + card.card_w

\* C2: every non-final segment has width round(W * fraction) and the final
\* segment takes the remainder of W; stops (0.5, 0.5) over width 581 at x = 80
\* give widths [290, 291], the second segment starting where the first ends.
C2_RoundedWithRemainder ==
    LoopDoneOnUnitSum =>
        LET n == Len(segs)
            W == card.card_w
        IN  /\ \A j \in 1..(n - 1) :
                  segs[j].width = PyRound(W * color_stops[j].fraction, 100)
            /\ segs[n].width = W - SumSeq(Widths(SubSeq(segs, 1, n - 1)))
            /\ (W = 581 /\ card.x = 80 /\ Fractions(color_stops) = <<50, 50>>)
                  => /\ Widths(segs) = <<290, 291>>
                     /\ segs[2].left = segs[1].left + segs[1].width

\* C3: in both generators an N-stop gradient becomes exactly N solid
\* rectangles in stop order, all with the same top and height, the first
\* starting at the gradient's origin x and each later one starting at the
\* right edge of the one before it.
C3_AdjacentSegmentsInStopOrder ==
    /\ generator = "pptx" =>
          /\ Len(segs) = k
          /\ k <= Len(color_stops)
          /\ \A j \in 1..Len(segs) :
                /\ segs[j].fill = color_stops[j].color
                /\ segs[j].top = card.y
                /\ segs[j].height = card.card_h
                /\ segs[j].left = IF j = 1 THEN card.x
                                  ELSE segs[j - 1].left + segs[j - 1].width
          /\ cx = IF k = 0 THEN card.x ELSE segs[k].left + segs[k].width
    /\ (generator = "pdf" /\ pdfpc = "returned") =>
          /\ Len(drawing) = Len(colors)
          /\ \A j \in 1..Len(drawing) :
                /\ drawing[j].fillColor = colors[j]
                /\ drawing[j].y = drawing[1].y
                /\ drawing[j].height = drawing[1].height
                /\ IF j = 1 THEN drawing[j].x.num = 0
                   ELSE FracEq(drawing[j].x,
                               FracAdd(drawing[j - 1].x, drawing[j - 1].width))

\* A three-stop gradient with two different colours, fully drawn on a card of
\* the slide
C3_Witness ==
    /\ generator = "pptx"
    /\ card \in SlideCards
    /\ k = 3
    /\ Len(segs) = 3
    /\ segs[1].fill # segs[2].fill
    /\ segs[3].left > segs[2].left

----------------------------------------------------------------------------
(* Rows and grids of equally sized cells on the slides *)

\* The loops of the slide generator that place equally sized cells
SingleRows == {"stats", "brand_blues", "logo_colors", "accent_colors",
               "emerald_colors", "buttons"}
MultiRows == {"gradients", "effects", "values", "specs"}
GridKinds == SingleRows \cup MultiRows

\* Length of the hardcoded list each loop runs over
DataLen(g) ==
    CASE g = "stats" -> 4
      [] g = "brand_blues" -> 10
      [] g = "logo_colors" -> 3
      [] g = "accent_colors" -> 6
      [] g = "emerald_colors" -> 4
      [] g = "gradients" -> 6
      [] g = "buttons" -> 4
      [] g = "effects" -> 4
      [] g = "values" -> 4
      [] g = "specs" -> 6

\* The technical-spec grid wrapping after two cards, like the value grid
GridColCopied(g, i) ==
    CASE g \in SingleRows -> i
      [] g = "gradients" -> GradientCol(i)
      [] g = "effects" -> i % 2
      [] g = "values" -> i % 2
      [] g = "specs" -> i % 2

\* col of item i (0-based); a single row multiplies the pitch by i itself
GridCol(g, i) ==
    CASE g \in SingleRows -> i
      [] g = "gradients" -> GradientCol(i)
      [] g = "effects" -> i % 2
      [] g = "values" -> i % 2
      [] g = "specs" -> i % 3

\* row of item i (0-based); a single row has one y for all items
GridRow(g, i) ==
    CASE g \in SingleRows -> 0
      [] g = "gradients" -> GradientRow(i)
      [] g = "effects" -> i \div 2
      [] g = "values" -> i \div 2
      [] g = "specs" -> i \div 3

\* Left edge of the first cell
GridOriginX(g) == Inches(80)

\* Top edge of the first cell
GridOriginY(g) ==
    CASE g = "stats" -> Inches(330)
      [] g = "brand_blues" -> Inches(195)
      [] g = "logo_colors" -> Inches(340)
      [] g = "accent_colors" -> Inches(480)
      [] g = "emerald_colors" -> Inches(610)
      [] g = "gradients" -> start_y
      [] g = "buttons" -> Inches(180)
      [] g = "effects" -> Inches(370)
      [] g = "values" -> Inches(165)
      [] g = "specs" -> Inches(165)

\* Width of a cell
CellWidth(g) ==
    CASE g = "stats" -> Inches(260)
      [] g = "brand_blues" -> Inches(115)
      [] g = "logo_colors" -> Inches(220)
      [] g = "accent_colors" -> Inches(200)
      [] g = "emerald_colors" -> Inches(220)
      [] g = "gradients" -> card_w
      [] g = "buttons" -> Inches(240)
      [] g = "effects" -> Inches(590)
      [] g = "values" -> Inches(580)
      [] g = "specs" -> Inches(370)

\* Height of a cell
CellHeight(g) ==
    CASE g = "stats" -> Inches(150)
      [] g = "brand_blues" -> Inches(65)
      [] g = "logo_colors" -> Inches(55)
      [] g = "accent_colors" -> Inches(55)
      [] g = "emerald_colors" -> Inches(50)
      [] g = "gradients" -> card_h
      [] g = "buttons" -> Inches(55)
      [] g = "effects" -> Inches(135)
      [] g = "values" -> Inches(230)
      [] g = "specs" -> Inches(210)

\* The stat cards stepped by the card width alone, the spacing forgotten
GridPitchXNoSpacing(g) ==
    CASE g = "stats" -> Inches(260)
      [] g = "brand_blues" -> Inches(115) + Inches(8)
      [] g = "logo_colors" -> Inches(250)
      [] g = "accent_colors" -> Inches(200) + Inches(8)
      [] g = "emerald_colors" -> Inches(250)
      [] g = "gradients" -> card_w + Inches(30)
      [] g = "buttons" -> Inches(280)
      [] g = "effects" -> Inches(630)
      [] g = "values" -> Inches(580) + Inches(30)
      [] g = "specs" -> Inches(370) + Inches(25)

\* Horizontal step from one column to the next: cell width plus gutter
GridPitchX(g) ==
    CASE g = "stats" -> Inches(260) + Inches(20)
      [] g = "brand_blues" -> Inches(115) + Inches(8)
      [] g = "logo_colors" -> Inches(250)
      [] g = "accent_colors" -> Inches(200) + Inches(8)
      [] g = "emerald_colors" -> Inches(250)
      [] g = "gradients" -> card_w + Inches(30)
      [] g = "buttons" -> Inches(280)
      [] g = "effects" -> Inches(630)
      [] g = "values" -> Inches(580) + Inches(30)
      [] g = "specs" -> Inches(370) + Inches(25)

\* Vertical step from one row to the next: cell height plus gutter
GridPitchY(g) ==
    CASE g \in SingleRows -> 0
      [] g = "gradients" -> card_h + Inches(55)
      [] g = "effects" -> Inches(155)
      [] g = "values" -> Inches(230) + Inches(25)
      [] g = "specs" -> Inches(210) + Inches(25)

\* x, y of item i
CellX(g, i) == GridOriginX(g) + GridCol(g, i) * GridPitchX(g)
CellY(g, i) == GridOriginY(g) + GridRow(g, i) * GridPitchY(g)

\* One iteration of `for i, ... in enumerate(<list>)`: the cell of item idx
PlaceCell ==
    /\ generator = "pptx"
    /\ grid \in GridKinds
    /\ idx < items
    /\ placed' = Append(placed, [x |-> CellX(grid, idx), y |-> CellY(grid, idx),
                                 w |-> CellWidth(grid), h |-> CellHeight(grid)])
    /\ idx' = idx + 1
    /\ UNCHANGED <<generator, grid, items>>
    /\ UNCHANGED <<gradVars, palVars, buildVars>>

\* One cell loop of the slide generator over a list of 0..MaxItems entries
InitGrid ==
    /\ generator = "pptx"
    /\ grid \in GridKinds
    /\ items \in 0..MaxItems
    /\ idx = 0
    /\ placed = <<>>
    /\ GradientIdle
    /\ PaletteIdle
    /\ BuildIdle

NextGrid == PlaceCell

SpecGrid == InitGrid /\ [][NextGrid]_vars

----------------------------------------------------------------------------
(* Properties of the cell grids *)

\* Number of columns of each multi-row grid
Columns(g) == IF g = "specs" THEN 3 ELSE 2

\* The cell that row-major order gives item i in a grid of c columns
RowMajorX(g, i, c) == GridOriginX(g) + (i % c) * GridPitchX(g)
RowMajorY(g, i, c) == GridOriginY(g) + (i \div c) * GridPitchY(g)

\* The loop runs over the list hardcoded in the generator
HardcodedList == grid \in GridKinds /\ items = DataLen(grid)

\* C4: in every multi-row card grid of the slide generator (gradient, UI-effect,
\* brand-value and technical-spec cards) with C columns, item i is at column
\* i mod C and row floor(i / C), so that index order is reading order.
C4_RowMajorInEveryGrid ==
    (HardcodedList /\ grid \in MultiRows) =>
        \A j \in 1..Len(placed) :
            /\ placed[j].x = RowMajorX(grid, j - 1, Columns(grid))
            /\ placed[j].y = RowMajorY(grid, j - 1, Columns(grid))

\* C4 as amended: the UI-effect, brand-value and technical-spec grids are
\* row-major (item i at column i mod C, row floor(i / C)); the six gradient
\* cards are column-major in two columns of three (item i at column
\* floor(i / 3), row i mod 3).
C4_RowMajorExceptGradients ==
    /\ grid \in {"effects", "values", "specs"} =>
          \A j \in 1..Len(placed) :
              /\ placed[j].x = RowMajorX(grid, j - 1, Columns(grid))
              /\ placed[j].y = RowMajorY(grid, j - 1, Columns(grid))
    /\ (grid = "gradients" /\ HardcodedList) =>
          \A j \in 1..Len(placed) :
              /\ placed[j].x = GridOriginX(grid) + ((j - 1) \div 3) * GridPitchX(grid)
              /\ placed[j].y = GridOriginY(grid) + ((j - 1) % 3) * GridPitchY(grid)

\* All six technical-spec cards placed: the fourth starts the second row
C4_Witness ==
    /\ grid = "specs"
    /\ HardcodedList
    /\ idx = 6
    /\ placed[4].x = placed[1].x
    /\ placed[4].y > placed[1].y
    /\ placed[3].x > placed[2].x

\* C5: for every item count N >= 0 each grid placement rule maps distinct
\* item indices to distinct cells: no two items of a grid get the same origin.
C5_DistinctOrigins ==
    grid \in GridKinds =>
        \A a, b \in 1..Len(placed) :
            a # b => <<placed[a].x, placed[a].y>> # <<placed[b].x, placed[b].y>>

Origins == [j \in 1..Len(placed) |-> <<placed[j].x, placed[j].y>>]

\* The four Key Stats cards of build_brand_overview are all placed
KeyStatsPlaced == grid = "stats" /\ items = 4 /\ idx = 4

\* C6: the four Key Stats cards (cell 260 x 150, gutter 20, origin (80, 330),
\* in 1/100 inch) wrap after two items: (80,330), (360,330), (80,500),
\* (360,500).
C6_KeyStatsWrapAfterTwo ==
    KeyStatsPlaced =>
        Origins = << <<Inches(80), Inches(330)>>, <<Inches(360), Inches(330)>>,
                     <<Inches(80), Inches(500)>>, <<Inches(360), Inches(500)>> >>

\* C6 as amended: the four Key Stats cards are laid out in one row of four,
\* item i at (80 + 280 i, 330): (80,330), (360,330), (640,330), (920,330).
C6_KeyStatsSingleRow ==
    KeyStatsPlaced =>
        Origins = << <<Inches(80), Inches(330)>>, <<Inches(360), Inches(330)>>,
                     <<Inches(640), Inches(330)>>, <<Inches(920), Inches(330)>> >>

C6_Witness == KeyStatsPlaced /\ Len(placed) = 4 /\ placed[4].w = Inches(260)

\* Width of the band the full-width content boxes occupy: 11.7 in from 0.8 in
ContentBandWidth == Inches(1170)

\* Number of placed cells that share the first cell's row
CellsInFirstRow == Cardinality({j \in 1..Len(placed) : placed[j].y = placed[1].y})

\* C7: for every row of equally sized cells on a slide, (number of cells in
\* the row) x (cell width + gutter) does not exceed the 11.7 in content width.
C7_RowFitsContentWidth ==
    (HardcodedList /\ idx = items) =>
        CellsInFirstRow * GridPitchX(grid) <= ContentBandWidth

----------------------------------------------------------------------------
(* Hex colour strings, kept as sequences of one-character strings *)

LowerLetters == <<"a", "b", "c", "d", "e", "f">>
UpperLetters == <<"A", "B", "C", "D", "E", "F">>
DecimalDigits == <<"0", "1", "2", "3", "4", "5", "6", "7", "8", "9">>

\* Position of c in the sequence s, 0 when it is not there
IndexOf(s, c) == IF \E n \in 1..Len(s) : s[n] = c
                 THEN CHOOSE n \in 1..Len(s) : s[n] = c
                 ELSE 0

\* str.upper() on one character of a hex colour string
UpperChar(c) == IF IndexOf(LowerLetters, c) > 0
                THEN UpperLetters[IndexOf(LowerLetters, c)]
                ELSE c

\* str.upper()
Upper(str) == [n \in 1..Len(str) |-> UpperChar(str[n])]

\* int(c, 16) of one hex digit
HexDigit(c) ==
    LET digit == IndexOf(DecimalDigits, c)
        lower == IndexOf(LowerLetters, c)
    IN  IF digit > 0 THEN digit - 1
        ELSE IF lower > 0 THEN 9 + lower
        ELSE 9 + IndexOf(UpperLetters, c)

\* int(hex_code[a:b], 16) with 0-based slice bounds a, b
RECURSIVE HexInt(_, _, _)
HexInt(str, a, b) ==
    IF b <= a THEN 0 ELSE HexInt(str, a, b - 1) * 16 + HexDigit(str[b])

\* reportlab HexColor('#rrggbb'): the 24-bit colour value
HexColor(str) == HexInt(str, 1, 7)

h193f8f == <<"#", "1", "9", "3", "f", "8", "f">>
h142857 == <<"#", "1", "4", "2", "8", "5", "7">>
h1a6ef5 == <<"#", "1", "a", "6", "e", "f", "5">>
h1B3A5C == <<"#", "1", "B", "3", "A", "5", "C">>
hC5961E == <<"#", "C", "5", "9", "6", "1", "E">>
hc2410c == <<"#", "c", "2", "4", "1", "0", "c">>
hea580c == <<"#", "e", "a", "5", "8", "0", "c">>
h059669 == <<"#", "0", "5", "9", "6", "6", "9">>
h10b981 == <<"#", "1", "0", "b", "9", "8", "1">>

----------------------------------------------------------------------------
(* create_color_swatch_table *)

\* Triples of the palette lists of build_pdf
PaletteTriples ==
    { [name |-> "950 Navy Dark", hex_code |-> h142857,
       usage |-> "Dark backgrounds, footers"],
      [name |-> "900 Navy", hex_code |-> h193f8f, usage |-> "Deep accents"],
      [name |-> "Logo Navy", hex_code |-> h1B3A5C,
       usage |-> "C letterform, wordmark text"] }

\* data = [['Swatch', 'Name', 'Hex Code', 'Usage']]
HeaderRow == <<"Swatch", "Name", "Hex Code", "Usage">>

\* A data row with the name and usage cells exchanged
DataRowSwapped(t) == <<[fillColor |-> HexColor(t.hex_code)], t.usage, t.hex_code, t.name>>

\* [swatch, name, hex_code, usage], the swatch a Rect filled HexColor(hex_code)
DataRow(t) == <<[fillColor |-> HexColor(t.hex_code)], t.name, t.hex_code, t.usage>>

\* One iteration of `for name, hex_code, usage in colors_list`
AppendSwatchRow ==
    /\ generator = "pdf"
    /\ ppc = "loop"
    /\ pidx < Len(colors_list)
    /\ data' = Append(data, DataRow(colors_list[pidx + 1]))
    /\ pidx' = pidx + 1
    /\ UNCHANGED <<generator, colors_list, table, family, swatches, shown, ppc>>
    /\ UNCHANGED <<gradVars, gridVars, buildVars>>

\* ('ROWBACKGROUNDS', (0, 1), (-1, -1), [WHITE, BLUE_TINT]): first row of the
\* range and the colour cycle
RowBackgroundsStart == 1
RowCycle == <<"WHITE", "BLUE_TINT">>

\* The cycle counted from the header row
RowBackgroundFromHeader(r) ==
    IF r < RowBackgroundsStart THEN "NAVY" ELSE RowCycle[(r % Len(RowCycle)) + 1]

\* Background of table row r (0-based): ('BACKGROUND', (0, 0), (-1, 0), NAVY)
\* on the header, the cycle over the rows of the ROWBACKGROUNDS range
RowBackground(r) ==
    IF r < RowBackgroundsStart THEN "NAVY"
    ELSE RowCycle[((r - RowBackgroundsStart) % Len(RowCycle)) + 1]

\* Table(data, ...), setStyle(...) and return, once the loop is over
BuildTable ==
    /\ generator = "pdf"
    /\ ppc = "loop"
    /\ pidx = Len(colors_list)
    /\ table' = [data |-> data,
                 background |-> [r \in 1..Len(data) |-> RowBackground(r - 1)]]
    /\ ppc' = "returned"
    /\ UNCHANGED <<generator, colors_list, data, family, swatches, shown, pidx>>
    /\ UNCHANGED <<gradVars, gridVars, buildVars>>

----------------------------------------------------------------------------
(* build_color_palette_slide: the swatch loops *)

SwatchFamilies == {"brand_blues", "logo_colors", "accent_colors", "emerald_colors"}

\* Entries of the swatch lists of build_color_palette_slide
SwatchEntries(f) ==
    CASE f = "brand_blues" ->
           {[hex_code |-> h193f8f, label |-> "900"],
            [hex_code |-> h1a6ef5, label |-> "600*"]}
      [] f = "logo_colors" ->
           {[hex_code |-> h1B3A5C, label |-> "Logo Navy"],
            [hex_code |-> hC5961E, label |-> "Logo Gold"]}
      [] f = "accent_colors" ->
           {[hex_code |-> hc2410c, label |-> "700"],
            [hex_code |-> hea580c, label |-> "600"]}
      [] f = "emerald_colors" ->
           {[hex_code |-> h059669, label |-> "600"],
            [hex_code |-> h10b981, label |-> "500"]}

\* r, g, b = int(hex_code[1:3], 16), int(hex_code[3:5], 16), int(hex_code[5:7], 16)
RGBColor(str) == <<HexInt(str, 1, 3), HexInt(str, 3, 5), HexInt(str, 5, 7)>>

\* The hex text without its leading "#"
SwatchHexTextBare(f, hex_code) == SubSeq(hex_code, 2, Len(hex_code))

\* The hex text of the swatch label: hex_code.upper(), but hex_code as it is
\* in the logo colour row
SwatchHexText(f, hex_code) == IF f = "logo_colors" THEN hex_code ELSE Upper(hex_code)

\* One iteration of `for i, (hex_code, label) in enumerate(<list>)`
DrawSwatch ==
    /\ generator = "pptx"
    /\ ppc = "loop"
    /\ pidx < Len(swatches)
    /\ LET e == swatches[pidx + 1]
       IN  shown' = Append(shown,
                [left |-> CellX(family, pidx), top |-> CellY(family, pidx),
                 width |-> CellWidth(family), height |-> CellHeight(family),
                 fill |-> RGBColor(e.hex_code),
                 label |-> e.label,
                 hex |-> SwatchHexText(family, e.hex_code)])
    /\ pidx' = pidx + 1
    /\ UNCHANGED <<generator, colors_list, data, table, family, swatches, ppc>>
    /\ UNCHANGED <<gradVars, gridVars, buildVars>>

----------------------------------------------------------------------------
(* Palette specification: one palette table, or one swatch row *)

InitPalette ==
    /\ generator \in {"pptx", "pdf"}
    /\ IF generator = "pdf"
         THEN /\ colors_list \in SeqsUpTo(PaletteTriples, MaxRows)
              /\ data = <<HeaderRow>>
              /\ family = "none"
              /\ swatches = <<>>
         ELSE /\ colors_list = <<>>
              /\ data = <<>>
              /\ family \in SwatchFamilies
              /\ swatches \in SeqsUpTo(SwatchEntries(family), MaxRows)
    /\ table = NoTable
    /\ shown = <<>>
    /\ pidx = 0
    /\ ppc = "loop"
    /\ GradientIdle
    /\ GridIdle
    /\ BuildIdle

NextPalette == AppendSwatchRow \/ BuildTable \/ DrawSwatch

SpecPalette == InitPalette /\ [][NextPalette]_vars

----------------------------------------------------------------------------
(* Properties of the palette assembly *)

TableReturned == generator = "pdf" /\ ppc = "returned"

\* C8: for any list of (name, hex, usage) triples, the empty list included,
\* the palette table is one header row followed by one data row per triple,
\* the k-th data row carrying the name, hex and usage of the k-th triple.
C8_RowsFollowInput ==
    /\ (generator = "pdf" /\ ppc = "loop") =>
          /\ Len(data) = 1 + pidx
          /\ data[1] = HeaderRow
    /\ TableReturned =>
          /\ Len(table.data) = 1 + Len(colors_list)
          /\ table.data[1] = HeaderRow
          /\ \A n \in 1..Len(colors_list) :
                /\ table.data[n + 1][2] = colors_list[n].name
                /\ table.data[n + 1][3] = colors_list[n].hex_code
                /\ table.data[n + 1][4] = colors_list[n].usage
                /\ table.data[n + 1][1].fillColor = HexColor(colors_list[n].hex_code)

\* A table of three rows whose input was not in any sorted order
C8_Witness ==
    /\ TableReturned
    /\ Len(colors_list) = 3
    /\ colors_list[1].name = "Logo Navy"
    /\ colors_list[2].name = "950 Navy Dark"
    /\ table.data[2][2] = "Logo Navy"

\* C9: data rows alternate by the parity of their 0-based data-row index:
\* even ones, starting with the first data row, are white and odd ones blue
\* tint; the header row does not count in the parity.
C9_ZebraByDataRowParity ==
    TableReturned =>
        /\ Len(table.background) = 1 + Len(colors_list)
        /\ \A n \in 0..(Len(colors_list) - 1) :
              table.background[n + 2] = IF n % 2 = 0 THEN "WHITE" ELSE "BLUE_TINT"

C9_Witness ==
    /\ TableReturned
    /\ Len(colors_list) = 3
    /\ table.background = <<"NAVY", "WHITE", "BLUE_TINT", "WHITE">>

\* C10: every hex string displayed for a palette entry, in the PDF palette
\* tables and in the slide swatch labels, is the entry's hex value uppercased
\* with a leading '#', whatever the letter case of the input.
C10_HexShownUppercase ==
    /\ generator = "pdf" =>
          \A n \in 2..Len(data) :
              /\ data[n][3] = Upper(colors_list[n - 1].hex_code)
              /\ data[n][3][1] = "#"
    /\ generator = "pptx" =>
          \A n \in 1..Len(shown) :
              /\ shown[n].hex = Upper(swatches[n].hex_code)
              /\ shown[n].hex[1] = "#"

\* ===========================================================================
\* One run of a generator: the slides of build_presentation, the pages of
\* build_pdf, the save and the report
\* ===========================================================================

\* Inches(t / 1000): Emu of a length given in thousandths of an inch
InchesK(t) == (t * 9144) \div 10

\* Pt(p): Emu of a length given in whole points
Pt(p) == p * 12700

\* A shape on a slide.  num/total are the two numbers of a slide-number text
\* (0 elsewhere), guarded tells that the shape is drawn under
\* `if os.path.exists(LOGO_PATH)`, rgb is the fill of a swatch parsed from its
\* hex code and hex the hex text of a swatch label (empty elsewhere).  A picture takes its height from the image
\* (0 here).
Shape(kind, role, l, t, w, h, color, text) ==
    [kind |-> kind, role |-> role, left |-> l, top |-> t, width |-> w, height |-> h,
     color |-> color, text |-> text, num |-> 0, total |-> 0, guarded |-> FALSE,
     rgb |-> <<>>, hex |-> <<>>]

\* slide.shapes.add_picture(LOGO_PATH, left, top, width=w) under the guard
LogoPicture(role, l, t, w) ==
    [Shape("picture", role, l, t, w, 0, "", "LOGO_PATH") EXCEPT !.guarded = TRUE]

\* What `if os.path.exists(LOGO_PATH): <block>` adds to the slide
IfLogoExists(exists, block) ==
    IF exists THEN [n \in 1..Len(block) |-> [block[n] EXCEPT !.guarded = TRUE]] ELSE <<>>

\* add_accent_bar(slide, top, color, height)
add_accent_bar(top, color, h) ==
    <<Shape("rect", "accent_bar", Inches(0), top, InchesK(13333), h, color, "")>>

\* add_footer_bar(slide); the dash of the tagline is written "-" here
add_footer_bar ==
    <<Shape("rect", "footer_bar", Inches(0), Inches(708), InchesK(13333), Inches(42),
            "NAVY_DARK", ""),
      Shape("text", "footer_tagline", Inches(40), Inches(713), Inches(500), Inches(30),
            "BLUE_LIGHT", "CredSuvidha - Trusted Partner. Swift Solutions."),
      Shape("text", "footer_domain", Inches(950), Inches(713), Inches(350), Inches(30),
            "LOGO_GOLD", "www.credsuvidha.com")>>

\* The default of the parameter `total` of add_slide_number
DefaultTotal == 12

\* add_slide_number that writes the number alone
SlideNumberWithoutTotal(number) ==
    <<[Shape("text", "slide_number", Inches(620), Inches(715), Inches(100), Inches(25),
             "WHITE", "") EXCEPT !.num = number]>>

\* add_slide_number(slide, number): the text f"{number}/{total}"
add_slide_number(number) ==
    <<[Shape("text", "slide_number", Inches(620), Inches(715), Inches(100), Inches(25),
             "WHITE", "/") EXCEPT !.num = number, !.total = DefaultTotal]>>

\* add_logo_header without the os.path.exists test
LogoHeaderUnguarded(exists) ==
    <<LogoPicture("logo_header", Inches(1080), Inches(20), Inches(220))>>

\* add_logo_header(slide)
add_logo_header(exists) ==
    IfLogoExists(exists, <<LogoPicture("logo_header", Inches(1080), Inches(20), Inches(220))>>)

\* The builders in the order build_presentation calls them
SlideBuilders ==
    <<"build_title_slide", "build_brand_overview", "build_logo_slide",
      "build_color_palette_slide", "build_gradients_slide", "build_typography_slide",
      "build_buttons_ui_slide", "build_brand_values_slide",
      "build_contact_compliance_slide", "build_technical_slide",
      "build_summary_slide", "build_thankyou_slide">>

\* The builders that draw the recurring frame: those that call add_accent_bar,
\* add_logo_header, add_footer_bar and add_slide_number
FramedBuilders ==
    {"build_brand_overview", "build_logo_slide", "build_color_palette_slide",
     "build_gradients_slide", "build_typography_slide", "build_buttons_ui_slide",
     "build_brand_values_slide", "build_contact_compliance_slide",
     "build_technical_slide", "build_summary_slide"}

\* Slide numbers with the typography builder copied from the gradients builder
\* and its number left as it was
SlideNumberArgCopied(b) ==
    CASE b = "build_brand_overview" -> 2
      [] b = "build_logo_slide" -> 3
      [] b = "build_color_palette_slide" -> 4
      [] b = "build_gradients_slide" -> 5
      [] b = "build_typography_slide" -> 5
      [] b = "build_buttons_ui_slide" -> 7
      [] b = "build_brand_values_slide" -> 8
      [] b = "build_contact_compliance_slide" -> 9
      [] b = "build_technical_slide" -> 10
      [] b = "build_summary_slide" -> 11

\* The number each builder passes to add_slide_number
SlideNumberArg(b) ==
    CASE b = "build_brand_overview" -> 2
      [] b = "build_logo_slide" -> 3
      [] b = "build_color_palette_slide" -> 4
      [] b = "build_gradients_slide" -> 5
      [] b = "build_typography_slide" -> 6
      [] b = "build_buttons_ui_slide" -> 7
      [] b = "build_brand_values_slide" -> 8
      [] b = "build_contact_compliance_slide" -> 9
      [] b = "build_technical_slide" -> 10
      [] b = "build_summary_slide" -> 11

\* Every builder calls add_accent_bar(slide) with the defaults
AccentBarDefault(b) == add_accent_bar(Inches(0), "BLUE_PRIMARY", Pt(4))

\* The accent bar each builder asks for: the defaults of add_accent_bar, but
\* color=NAVY_DARK, height=Pt(5) in build_summary_slide
AccentBarOf(b) ==
    IF b = "build_summary_slide" THEN add_accent_bar(Inches(0), "NAVY_DARK", Pt(5))
    ELSE add_accent_bar(Inches(0), "BLUE_PRIMARY", Pt(4))

\* The frame calls of a builder that leaves out add_footer_bar
FrameWithoutFooter(b, exists) ==
    AccentBarOf(b) \o add_logo_header(exists) \o add_slide_number(SlideNumberArg(b))

\* The four frame calls at the head of a content-slide builder
Frame(b, exists) ==
    AccentBarOf(b) \o add_logo_header(exists) \o add_footer_bar
        \o add_slide_number(SlideNumberArg(b))

\* Slide background of each builder
Background(b) ==
    CASE b \in {"build_title_slide", "build_thankyou_slide"} -> "NAVY_DARK"
      [] b = "build_summary_slide" -> "BLUE_TINT"
      [] OTHER -> "BG_ALT"

\* Title text of each content slide
TitleText(b) ==
    CASE b = "build_brand_overview" -> "Brand Overview"
      [] b = "build_logo_slide" -> "Logo"
      [] b = "build_color_palette_slide" -> "Color Palette"
      [] b = "build_gradients_slide" -> "Gradients"
      [] b = "build_typography_slide" -> "Typography"
      [] b = "build_buttons_ui_slide" -> "Buttons & UI Components"
      [] b = "build_brand_values_slide" -> "Brand Values"
      [] b = "build_contact_compliance_slide" -> "Contact & Compliance"
      [] b = "build_technical_slide" -> "Technical Specifications"
      [] b = "build_summary_slide" -> "Key Takeaways"

\* The title textbox that follows the frame calls
TitleBox(b) ==
    <<Shape("text", "title", Inches(80), Inches(50), Inches(800), Inches(70),
            "NAVY_DARK", TitleText(b))>>

\* The items under "Do" and under "Don't" of build_logo_slide: one text box
\* per item of dos and of donts
DosAndDonts ==
    [i \in 1..3 |->
        Shape("text", "do_item", Inches(770), Inches(530) + (i - 1) * Inches(32),
              Inches(500), Inches(30), "TEXT_DARK",
              <<"Use on white, cream, or light backgrounds",
                "Use inverted version on dark backgrounds",
                "Maintain proportions when scaling">>[i])]
    \o [i \in 1..3 |->
        Shape("text", "dont_item", Inches(1040), Inches(530) + (i - 1) * Inches(32),
              Inches(300), Inches(30), "TEXT_DARK",
              <<"Stretch or distort the logo", "Change the logo colors",
                "Place on busy backgrounds">>[i])]

\* build_logo_slide after its title: the block under the logo guard (two
\* cards, two pictures, two captions) and the headings that follow it
LogoSlideBody(exists) ==
    <<Shape("text", "subtitle", Inches(80), Inches(110), Inches(1170), Inches(50),
            "TEXT_GRAY", "Interlocking C and S letterforms")>>
    \o IfLogoExists(exists,
         <<Shape("rect", "logo_card", Inches(80), Inches(180), Inches(540), Inches(280),
                 "WHITE", ""),
           LogoPicture("logo_picture", Inches(150), Inches(200), Inches(400)),
           Shape("text", "logo_caption", Inches(80), Inches(430), Inches(540), Inches(30),
                 "TEXT_MUTED", "Primary - Light Background"),
           Shape("rect", "logo_card", Inches(650), Inches(180), Inches(590), Inches(280),
                 "LOGO_BG", ""),
           LogoPicture("logo_picture", Inches(740), Inches(200), Inches(400)),
           Shape("text", "logo_caption", Inches(650), Inches(430), Inches(590), Inches(30),
                 "TEXT_MUTED", "On Brand Cream - #FAF6F1")>>)
    \o <<Shape("text", "heading", Inches(80), Inches(485), Inches(400), Inches(40),
               "NAVY_DARK", "Logo Elements"),
         Shape("text", "heading", Inches(750), Inches(485), Inches(250), Inches(40),
               "EMERALD_DK", "Do"),
         Shape("text", "heading", Inches(1020), Inches(485), Inches(250), Inches(40),
               "DC2626", "Don't")>>
    \o DosAndDonts

\* The values datetime.now().strftime('%B %Y') may take
Dates == {"November 2026", "December 2026"}

\* build_title_slide
TitleSlide(exists, today) ==
    <<Shape("rect", "stripe", Inches(0), Inches(450), InchesK(6667), Pt(5), "BLUE_PRIMARY", ""),
      Shape("rect", "stripe", InchesK(6667), Inches(450), InchesK(6666), Pt(5), "LOGO_GOLD", "")>>
    \o IfLogoExists(exists, <<LogoPicture("cover_logo", Inches(380), Inches(60), Inches(550))>>)
    \o <<Shape("text", "cover_title", Inches(100), Inches(470), InchesK(11333), Inches(80),
               "WHITE", "Brand Kit"),
         Shape("text", "cover_subtitle", Inches(100), Inches(540), InchesK(11333), Inches(60),
               "BLUE_LIGHT", "Visual Identity & Brand Guidelines"),
         Shape("text", "version_date", Inches(100), Inches(610), InchesK(11333), Inches(40),
               "TEXT_MUTED", today),
         Shape("rect", "bottom_accent", Inches(0), Inches(720), InchesK(13333), Inches(30),
               "BLUE_PRIMARY", "")>>

\* build_thankyou_slide
ThankYouSlide(exists) ==
    <<Shape("rect", "stripe", Inches(0), Inches(320), InchesK(6667), Pt(3), "BLUE_PRIMARY", ""),
      Shape("rect", "stripe", InchesK(6667), Inches(320), InchesK(6666), Pt(3), "LOGO_GOLD", "")>>
    \o IfLogoExists(exists, <<LogoPicture("closing_logo", Inches(420), Inches(50), Inches(500))>>)
    \o <<Shape("text", "closing_title", Inches(100), Inches(350), InchesK(11333), Inches(90),
               "WHITE", "Thank You"),
         Shape("text", "closing_contact", Inches(100), Inches(450), InchesK(11333), Inches(50),
               "BLUE_LIGHT", "+91 93076 73391  info@credsuvidha.com  www.credsuvidha.com"),
         Shape("text", "closing_tagline", Inches(100), Inches(530), InchesK(11333), Inches(50),
               "WHITE", "Trusted Partner. Swift Solutions."),
         Shape("text", "copyright", Inches(100), Inches(630), InchesK(11333), Inches(30),
               "TEXT_MUTED", "(c) 2025 CredSuvidha. All rights reserved."),
         Shape("rect", "bottom_accent", Inches(0), Inches(720), InchesK(13333), Inches(30),
               "BLUE_PRIMARY", "")>>

\* A gradients list with a gradient of three stops of 0.33
GradientsThirds ==
    <<[name |-> "Primary CTA",
       color_stops |-> <<[color |-> "BLUE_PRIMARY", fraction |-> 50],
                         [color |-> "BLUE_BRIGHT", fraction |-> 50]>>],
      [name |-> "Hero / Header",
       color_stops |-> <<[color |-> "NAVY_DARK", fraction |-> 33],
                         [color |-> "BLUE_PRIMARY", fraction |-> 33],
                         [color |-> "BLUE_BRIGHT", fraction |-> 33]>>]>>

\* The list `gradients` of build_gradients_slide, fractions in hundredths
Gradients ==
    <<[name |-> "Primary CTA",
       color_stops |-> <<[color |-> "BLUE_PRIMARY", fraction |-> 50],
                         [color |-> "BLUE_BRIGHT", fraction |-> 50]>>],
      [name |-> "Hero / Header",
       color_stops |-> <<[color |-> "NAVY_DARK", fraction |-> 33],
                         [color |-> "BLUE_PRIMARY", fraction |-> 34],
                         [color |-> "BLUE_BRIGHT", fraction |-> 33]>>],
      [name |-> "Accent CTA",
       color_stops |-> <<[color |-> "ACCENT_PRI", fraction |-> 50],
                         [color |-> "ACCENT_LT", fraction |-> 50]>>],
      [name |-> "Gradient Text",
       color_stops |-> <<[color |-> "BLUE_PRIMARY", fraction |-> 33],
                         [color |-> "BLUE_BRIGHT", fraction |-> 34],
                         [color |-> "ACCENT_PRI", fraction |-> 33]>>],
      [name |-> "Success",
       color_stops |-> <<[color |-> "EMERALD_DK", fraction |-> 50],
                         [color |-> "EMERALD", fraction |-> 50]>>],
      [name |-> "Logo Badge",
       color_stops |-> <<[color |-> "BLUE_PRIMARY", fraction |-> 50],
                         [color |-> "BLUE_LIGHT", fraction |-> 50]>>]>>

\* The segment loop of one gradient card: the segments of `stops` from the
\* running edge c on
RECURSIVE SegmentShapes(_, _, _)
SegmentShapes(stops, c, y) ==
    IF stops = <<>> THEN <<>>
    ELSE LET seg_w == SegWidth(card_w, stops[1].fraction)
         IN  <<Shape("rect", "gradient_segment", c, y, seg_w, card_h, stops[1].color, "")>>
             \o SegmentShapes(Tail(stops), NextCx(c, seg_w), y)

\* One iteration of `for i, (name, css, color_stops) in enumerate(gradients)`
\* (i 0-based): the segments and the two labels below them
GradientCardShapes(list, i) ==
    SegmentShapes(list[i + 1].color_stops, GradientX(i), GradientY(i))
    \o <<Shape("text", "gradient_name", GradientX(i), GradientY(i) + card_h + Pt(2),
               card_w, Inches(20), "NAVY_DARK", list[i + 1].name),
         Shape("text", "gradient_css", GradientX(i), GradientY(i) + card_h + Inches(22),
               card_w, Inches(20), "TEXT_MUTED", "css")>>

\* The cards of gradients i, i + 1, ... of the list
RECURSIVE GradientShapesFrom(_, _)
GradientShapesFrom(list, i) ==
    IF i >= Len(list) THEN <<>>
    ELSE GradientCardShapes(list, i) \o GradientShapesFrom(list, i + 1)

\* build_gradients_slide after its title
GradientSlideBody ==
    <<Shape("text", "subtitle", Inches(80), Inches(110), Inches(1170), Inches(40),
            "TEXT_GRAY", "Signature gradients")>>
    \o GradientShapesFrom(Gradients, 0)

\* The gradients list a builder holds
GradientsOf(b) == IF b = "build_gradients_slide" THEN Gradients ELSE <<>>

\* The brand blue list with a mistyped digit in its first hex code
SwatchListTypo(f) ==
    <<[hex_code |-> <<"#", "1", "4", "2", "8", "5", "g">>, label |-> "950"],
      [hex_code |-> <<"#", "1", "9", "3", "f", "8", "f">>, label |-> "900"]>>

\* The swatch lists of build_color_palette_slide: (hex_code, label) pairs
SwatchList(f) ==
    CASE f = "brand_blues" ->
           <<[hex_code |-> <<"#", "1", "4", "2", "8", "5", "7">>, label |-> "950"],
             [hex_code |-> <<"#", "1", "9", "3", "f", "8", "f">>, label |-> "900"],
             [hex_code |-> <<"#", "1", "7", "4", "7", "b", "6">>, label |-> "800"],
             [hex_code |-> <<"#", "1", "4", "5", "8", "e", "1">>, label |-> "700"],
             [hex_code |-> <<"#", "1", "a", "6", "e", "f", "5">>, label |-> "600*"],
             [hex_code |-> <<"#", "3", "3", "8", "d", "f", "f">>, label |-> "500"],
             [hex_code |-> <<"#", "5", "9", "b", "0", "f", "f">>, label |-> "400"],
             [hex_code |-> <<"#", "8", "e", "c", "d", "f", "f">>, label |-> "300"],
             [hex_code |-> <<"#", "b", "c", "e", "0", "f", "f">>, label |-> "200"],
             [hex_code |-> <<"#", "e", "e", "f", "7", "f", "f">>, label |-> "50"]>>
      [] f = "logo_colors" ->
           <<[hex_code |-> <<"#", "1", "B", "3", "A", "5", "C">>, label |-> "Logo Navy"],
             [hex_code |-> <<"#", "C", "5", "9", "6", "1", "E">>, label |-> "Logo Gold"],
             [hex_code |-> <<"#", "F", "A", "F", "6", "F", "1">>, label |-> "Logo BG"]>>
      [] f = "accent_colors" ->
           <<[hex_code |-> <<"#", "c", "2", "4", "1", "0", "c">>, label |-> "700"],
             [hex_code |-> <<"#", "e", "a", "5", "8", "0", "c">>, label |-> "600"],
             [hex_code |-> <<"#", "f", "9", "7", "3", "1", "6">>, label |-> "500*"],
             [hex_code |-> <<"#", "f", "b", "9", "2", "3", "c">>, label |-> "400"],
             [hex_code |-> <<"#", "f", "d", "b", "a", "7", "4">>, label |-> "300"],
             [hex_code |-> <<"#", "f", "f", "f", "7", "e", "d">>, label |-> "50"]>>
      [] f = "emerald_colors" ->
           <<[hex_code |-> <<"#", "0", "5", "9", "6", "6", "9">>, label |-> "600"],
             [hex_code |-> <<"#", "1", "0", "b", "9", "8", "1">>, label |-> "500"],
             [hex_code |-> <<"#", "3", "4", "d", "3", "9", "9">>, label |-> "400"],
             [hex_code |-> <<"#", "e", "c", "f", "d", "f", "5">>, label |-> "50"]>>

\* The four lists in the order build_color_palette_slide walks them
SwatchOrder == <<"brand_blues", "logo_colors", "accent_colors", "emerald_colors">>

\* Top of the text box that shows the hex code under a swatch
HexLabelTop(f) ==
    CASE f = "brand_blues" -> CellY(f, 0) + CellHeight(f) + Inches(18)
      [] f = "logo_colors" -> Inches(398)
      [] f = "accent_colors" -> Inches(538)
      [] f = "emerald_colors" -> Inches(663)

\* One iteration of `for i, (hex_code, label) in enumerate(<list>)` (i 0-based):
\* the swatch, filled with the colour parsed from hex_code, and the text box
\* that shows the hex code
SwatchShapes(f, i) ==
    LET entry == SwatchList(f)[i + 1]
    IN  <<[Shape("rect", "swatch", CellX(f, i), CellY(f, i), CellWidth(f), CellHeight(f),
                 "hex_code", "") EXCEPT !.rgb = RGBColor(entry.hex_code)],
          [Shape("text", "swatch_hex", CellX(f, i), HexLabelTop(f), CellWidth(f), Inches(20),
                 "TEXT_GRAY", entry.label)
             EXCEPT !.hex = SwatchHexText(f, entry.hex_code)]>>

\* The swatches i, i + 1, ... of list f
RECURSIVE SwatchRowFrom(_, _)
SwatchRowFrom(f, i) ==
    IF i >= Len(SwatchList(f)) THEN <<>>
    ELSE SwatchShapes(f, i) \o SwatchRowFrom(f, i + 1)

\* build_color_palette_slide after its title
PaletteSlideBody ==
    SwatchRowFrom("brand_blues", 0) \o SwatchRowFrom("logo_colors", 0)
        \o SwatchRowFrom("accent_colors", 0) \o SwatchRowFrom("emerald_colors", 0)

\* The hex codes of list f
HexCodes(f) == [n \in 1..Len(SwatchList(f)) |-> SwatchList(f)[n].hex_code]

\* The hex codes a builder parses
HexCodesOf(b) ==
    IF b = "build_color_palette_slide"
    THEN HexCodes("brand_blues") \o HexCodes("logo_colors")
            \o HexCodes("accent_colors") \o HexCodes("emerald_colors")
    ELSE <<>>

\* What a content-slide builder draws after its frame and title
SlideBody(b, exists) ==
    CASE b = "build_logo_slide" -> LogoSlideBody(exists)
      [] b = "build_color_palette_slide" -> PaletteSlideBody
      [] b = "build_gradients_slide" -> GradientSlideBody
      [] OTHER -> <<>>

\* The shapes one builder puts on its slide, in drawing order
SlideShapes(b, exists, today) ==
    CASE b = "build_title_slide" -> TitleSlide(exists, today)
      [] b = "build_thankyou_slide" -> ThankYouSlide(exists)
      [] b \in FramedBuilders -> Frame(b, exists) \o TitleBox(b) \o SlideBody(b, exists)

\* ---------------------------------------------------------------------------
\* The PDF canvas.  Lengths are in 1/9000 mm, in which a hundredth of a
\* millimetre, a hundredth of an inch and a point are whole numbers.
\* ---------------------------------------------------------------------------

\* A length given in 1/100 mm
PdfLen(hmm) == hmm * 90

\* h / 100 * inch
PdfInch(h) == h * 2286

\* A length given in points
PdfPt(p) == p * 3175

\* A4
PAGE_HEIGHT == 29700

\* len * p / 100
Pct(len, p) == (len * p) \div 100

\* One canvas operation.  lw is the line width in tenths of a point, num the
\* number in a page-number text and total the total shown with it (0: none)
CanvasOp(op, role, color, x, y, w, h, text) ==
    [op |-> op, role |-> role, color |-> color, x |-> x, y |-> y, w |-> w, h |-> h,
     text |-> text, lw |-> 0, num |-> 0, total |-> 0, guarded |-> FALSE]

\* What `if os.path.exists(LOGO_PATH): c_obj.drawImage(...)` draws
IfLogoExistsDraw(exists, x, y, w, h, role) ==
    IF exists
    THEN <<[CanvasOp("drawImage", role, "", x, y, w, h, "LOGO_PATH") EXCEPT !.guarded = TRUE]>>
    ELSE <<>>

\* draw_header_footer(c_obj, doc) with doc.page = page
draw_header_footer(page, exists) ==
    LET w == PdfLen(PAGE_WIDTH)
        h == PdfLen(PAGE_HEIGHT)
        ml == PdfLen(MARGIN_LEFT)
        mr == PdfLen(MARGIN_RIGHT)
    IN  <<[CanvasOp("line", "accent_line", "BLUE_PRIMARY", ml, h - PdfInch(55),
                    w \div 2 - ml, 0, "") EXCEPT !.lw = 15],
          [CanvasOp("line", "accent_line", "LOGO_GOLD", w \div 2, h - PdfInch(55),
                    (w - mr) - w \div 2, 0, "") EXCEPT !.lw = 15],
          CanvasOp("drawString", "header_text", "TEXT_GRAY", ml, h - PdfInch(48), 0, 0,
                   "CredSuvidha Brand Kit")>>
        \o IfLogoExistsDraw(exists, w - mr - PdfInch(100), h - PdfInch(53),
                            PdfInch(95), PdfInch(42), "logo_header")
        \o <<CanvasOp("rect", "footer_bar", "NAVY_DARK", 0, 0, w, PdfInch(40), ""),
             CanvasOp("drawString", "footer_tagline", "BLUE_LIGHT", PdfInch(30), PdfInch(15),
                      0, 0, "CredSuvidha - Trusted Partner. Swift Solutions."),
             CanvasOp("drawRightString", "footer_domain", "LOGO_GOLD", w - PdfInch(30),
                      PdfInch(15), 0, 0, "www.credsuvidha.com"),
             [CanvasOp("drawCentredString", "page_number", "WHITE", w \div 2, PdfInch(15),
                       0, 0, "Page ") EXCEPT !.num = page]>>

\* draw_cover_page(c_obj, doc)
draw_cover_page(exists, today) ==
    LET w == PdfLen(PAGE_WIDTH)
        h == PdfLen(PAGE_HEIGHT)
        ml == PdfLen(MARGIN_LEFT)
        stripe_y == Pct(h, 45)
        title_y == Pct(h, 68)
        badge_y == title_y - PdfPt(65)
        info_y == Pct(h, 35)
    IN  <<CanvasOp("rect", "cover_background", "NAVY_DARK", 0, Pct(h, 45), w, Pct(h, 55), ""),
          CanvasOp("rect", "stripe", "BLUE_PRIMARY", 0, stripe_y, Pct(w, 50), PdfPt(4), ""),
          CanvasOp("rect", "stripe", "LOGO_GOLD", Pct(w, 50), stripe_y, Pct(w, 50), PdfPt(4), "")>>
        \o IfLogoExistsDraw(exists, ml, Pct(h, 82), PdfInch(250), PdfInch(130), "cover_logo")
        \o <<CanvasOp("drawString", "cover_title", "WHITE", ml, title_y, 0, 0, "Brand Kit"),
             CanvasOp("drawString", "cover_subtitle", "BLUE_LIGHT", ml, title_y - PdfPt(30), 0, 0,
                      "Visual Identity & Brand Guidelines"),
             CanvasOp("roundRect", "badge", "BLUE_PRIMARY", ml, badge_y, PdfPt(120), PdfPt(22), ""),
             CanvasOp("drawString", "badge_text", "WHITE", ml + PdfPt(12), badge_y + PdfPt(7),
                      0, 0, "VERSION 1.0"),
             CanvasOp("drawString", "info", "TEXT_GRAY", ml, info_y, 0, 0,
                      "Company: CredSuvidha"),
             CanvasOp("drawString", "version_date", "TEXT_GRAY", ml, info_y - PdfPt(20), 0, 0,
                      today),
             CanvasOp("drawString", "info", "TEXT_GRAY", ml, info_y - PdfPt(40), 0, 0,
                      "Domain: www.credsuvidha.com"),
             CanvasOp("drawString", "info", "TEXT_GRAY", ml, info_y - PdfPt(60), 0, 0,
                      "Industry: Financial Services (Fintech)"),
             CanvasOp("drawCentredString", "cover_tagline", "LOGO_GOLD", w \div 2, Pct(h, 8),
                      0, 0, "Trusted Partner. Swift Solutions."),
             CanvasOp("rect", "bottom_accent", "NAVY_DARK", 0, 0, w, PdfPt(30), ""),
             CanvasOp("drawCentredString", "copyright", "BLUE_LIGHT", w \div 2, PdfPt(11), 0, 0,
                      "(c) 2025 CredSuvidha. All rights reserved. | www.credsuvidha.com")>>

\* The callbacks with the badge text of the cover read from the loaded tokens
PageOpsFromTokens(page, exists, today) ==
    LET ops == IF page = 1 THEN draw_cover_page(exists, today)
               ELSE draw_header_footer(page, exists)
    IN  [n \in 1..Len(ops) |->
            IF ops[n].role = "badge_text" THEN [ops[n] EXCEPT !.text = tokens] ELSE ops[n]]

\* doc.build(story, onFirstPage=draw_cover_page, onLaterPages=draw_header_footer):
\* the callback run on page `page`
PageOps(page, exists, today) ==
    IF page = 1 THEN draw_cover_page(exists, today) ELSE draw_header_footer(page, exists)

\* A flowable of the story
Flowable(kind, text) ==
    [kind |-> kind, text |-> text, guarded |-> FALSE, hex |-> <<>>, colWidths |-> <<>>]

PageBreak == <<Flowable("PageBreak", "")>>

\* Paragraph(text, styles['SectionHeader'])
SectionHeader(text) == <<Flowable("SectionHeader", text)>>

\* The block of build_pdf under `if os.path.exists(LOGO_PATH)`: two captions,
\* each with a one-cell table that holds Image(LOGO_PATH, ...)
LogoSection(exists) ==
    IF exists
    THEN <<[Flowable("Paragraph", "Primary - Light Background") EXCEPT !.guarded = TRUE],
           [Flowable("Image", "LOGO_PATH") EXCEPT !.guarded = TRUE],
           [Flowable("Paragraph", "On Brand Cream - #FAF6F1") EXCEPT !.guarded = TRUE],
           [Flowable("Image", "LOGO_PATH") EXCEPT !.guarded = TRUE]>>
    ELSE <<>>

\* The tables build_pdf gives more than one column
MultiColumnTables ==
    {"palette", "logo_elements", "usage_guidelines", "key_metrics", "gradient_specs",
     "typography", "type_scale", "buttons", "ui_effects", "company", "contact",
     "technical", "assets"}

\* colWidths of each of them, as written at its Table(...) call
ColWidths(name) ==
    LET cw == PdfLen(CONTENT_WIDTH)
    IN  CASE name = "palette" ->
               <<PdfInch(50), PdfInch(180), PdfInch(120), cw - PdfInch(350)>>
          [] name = "key_metrics" -> <<cw \div 4, cw \div 4, cw \div 4, cw \div 4>>
          [] name = "logo_elements" -> <<PdfInch(150), cw - PdfInch(150)>>
          [] name = "usage_guidelines" -> <<cw \div 2, cw \div 2>>
          [] name = "gradient_specs" -> <<PdfInch(150), cw - PdfInch(150)>>
          [] name = "typography" -> <<PdfInch(150), PdfInch(120), cw - PdfInch(270)>>
          [] name = "type_scale" ->
               <<PdfInch(150), PdfInch(150), PdfInch(130), cw - PdfInch(430)>>
          [] name = "buttons" ->
               <<PdfInch(80), PdfInch(180), PdfInch(70), PdfInch(100), cw - PdfInch(430)>>
          [] name = "ui_effects" -> <<PdfInch(110), PdfInch(300), cw - PdfInch(410)>>
          [] name = "company" -> <<PdfInch(150), cw - PdfInch(150)>>
          [] name = "contact" -> <<PdfInch(150), cw - PdfInch(150)>>
          [] name = "technical" -> <<PdfInch(130), cw - PdfInch(130)>>
          [] name = "assets" -> <<PdfInch(120), PdfInch(250), cw - PdfInch(370)>>

\* Table(data, colWidths=[...]) as a flowable
Table(name) == <<[Flowable("Table", name) EXCEPT !.colWidths = ColWidths(name)]>>

\* The palette lists of build_pdf: the hex_code of each (name, hex_code, usage)
\* triple, list by list
PaletteLists ==
    <<<<<<"#", "1", "4", "2", "8", "5", "7">>,
        <<"#", "1", "9", "3", "f", "8", "f">>,
        <<"#", "1", "7", "4", "7", "b", "6">>,
        <<"#", "1", "4", "5", "8", "e", "1">>,
        <<"#", "1", "a", "6", "e", "f", "5">>,
        <<"#", "3", "3", "8", "d", "f", "f">>,
        <<"#", "5", "9", "b", "0", "f", "f">>,
        <<"#", "8", "e", "c", "d", "f", "f">>,
        <<"#", "b", "c", "e", "0", "f", "f">>,
        <<"#", "d", "9", "e", "d", "f", "f">>,
        <<"#", "e", "e", "f", "7", "f", "f">>>>,
      <<<<"#", "1", "B", "3", "A", "5", "C">>,
        <<"#", "C", "5", "9", "6", "1", "E">>,
        <<"#", "F", "A", "F", "6", "F", "1">>>>,
      <<<<"#", "c", "2", "4", "1", "0", "c">>,
        <<"#", "e", "a", "5", "8", "0", "c">>,
        <<"#", "f", "9", "7", "3", "1", "6">>,
        <<"#", "f", "b", "9", "2", "3", "c">>,
        <<"#", "f", "d", "b", "a", "7", "4">>,
        <<"#", "f", "f", "f", "7", "e", "d">>>>,
      <<<<"#", "0", "5", "9", "6", "6", "9">>,
        <<"#", "1", "0", "b", "9", "8", "1">>,
        <<"#", "3", "4", "d", "3", "9", "9">>,
        <<"#", "e", "c", "f", "d", "f", "5">>>>,
      <<<<"#", "0", "f", "1", "7", "2", "a">>,
        <<"#", "1", "e", "2", "9", "3", "b">>,
        <<"#", "3", "3", "4", "1", "5", "5">>,
        <<"#", "6", "4", "7", "4", "8", "b">>,
        <<"#", "9", "4", "a", "3", "b", "8">>,
        <<"#", "e", "2", "e", "8", "f", "0">>,
        <<"#", "f", "8", "f", "a", "f", "c">>,
        <<"#", "f", "f", "f", "f", "f", "f">>>>>>

\* The colour lists of the `gradients` of build_pdf
GradientColorLists ==
    <<<<<<"#", "1", "a", "6", "e", "f", "5">>, <<"#", "3", "3", "8", "d", "f", "f">>>>,
      <<<<"#", "1", "4", "2", "8", "5", "7">>, <<"#", "1", "a", "6", "e", "f", "5">>, <<"#", "3", "3", "8", "d", "f", "f">>>>,
      <<<<"#", "f", "9", "7", "3", "1", "6">>, <<"#", "f", "b", "9", "2", "3", "c">>>>,
      <<<<"#", "1", "a", "6", "e", "f", "5">>, <<"#", "3", "3", "8", "d", "f", "f">>, <<"#", "f", "9", "7", "3", "1", "6">>>>,
      <<<<"#", "0", "5", "9", "6", "6", "9">>, <<"#", "1", "0", "b", "9", "8", "1">>>>,
      <<<<"#", "1", "a", "6", "e", "f", "5">>, <<"#", "5", "9", "b", "0", "f", "f">>>>>>

\* The arguments of the HexColor(...) that define the brand colour constants of
\* the PDF generator, in the order of the module
BrandColorHex ==
    <<<<"#", "1", "4", "2", "8", "5", "7">>,
      <<"#", "1", "9", "3", "f", "8", "f">>,
      <<"#", "1", "7", "4", "7", "b", "6">>,
      <<"#", "1", "4", "5", "8", "e", "1">>,
      <<"#", "1", "a", "6", "e", "f", "5">>,
      <<"#", "3", "3", "8", "d", "f", "f">>,
      <<"#", "5", "9", "b", "0", "f", "f">>,
      <<"#", "8", "e", "c", "d", "f", "f">>,
      <<"#", "b", "c", "e", "0", "f", "f">>,
      <<"#", "d", "9", "e", "d", "f", "f">>,
      <<"#", "e", "e", "f", "7", "f", "f">>,
      <<"#", "c", "2", "4", "1", "0", "c">>,
      <<"#", "e", "a", "5", "8", "0", "c">>,
      <<"#", "f", "9", "7", "3", "1", "6">>,
      <<"#", "f", "b", "9", "2", "3", "c">>,
      <<"#", "0", "5", "9", "6", "6", "9">>,
      <<"#", "1", "0", "b", "9", "8", "1">>,
      <<"#", "3", "4", "d", "3", "9", "9">>,
      <<"#", "1", "B", "3", "A", "5", "C">>,
      <<"#", "C", "5", "9", "6", "1", "E">>,
      <<"#", "F", "A", "F", "6", "F", "1">>,
      <<"#", "1", "e", "2", "9", "3", "b">>,
      <<"#", "6", "4", "7", "4", "8", "b">>,
      <<"#", "9", "4", "a", "3", "b", "8">>,
      <<"#", "e", "2", "e", "8", "f", "0">>,
      <<"#", "f", "8", "f", "a", "f", "c">>,
      <<"#", "F", "F", "F", "F", "F", "F">>>>

\* The hex strings written in place in build_pdf and its helpers (table grids,
\* value-card and do/don't colours)
InlineHex ==
    <<<<"#", "0", "5", "9", "6", "6", "9">>,
      <<"#", "1", "0", "b", "9", "8", "1">>,
      <<"#", "1", "a", "6", "e", "f", "5">>,
      <<"#", "C", "5", "9", "6", "1", "E">>,
      <<"#", "D", "1", "D", "5", "D", "B">>,
      <<"#", "D", "C", "2", "6", "2", "6">>,
      <<"#", "F", "1", "F", "5", "F", "9">>,
      <<"#", "F", "E", "F", "2", "F", "2">>,
      <<"#", "e", "c", "f", "d", "f", "5">>,
      <<"#", "f", "9", "7", "3", "1", "6">>>>

\* The elements of a sequence
Range(sq) == {sq[n] : n \in 1..Len(sq)}

\* create_color_swatch_table(colors_list) on palette list n, as a flowable
SwatchTable(n) ==
    <<[Flowable("SwatchTable", "palette")
         EXCEPT !.hex = PaletteLists[n], !.colWidths = ColWidths("palette")]>>

\* create_gradient_drawing(colors, label) on gradient n, as a flowable
GradientDrawing(n) == <<[Flowable("GradientDrawing", "") EXCEPT !.hex = GradientColorLists[n]]>>

\* The hex strings build_pdf passes to HexColor
StoryHex ==
    UNION {Range(PaletteLists[n]) : n \in 1..Len(PaletteLists)}
        \cup UNION {Range(GradientColorLists[n]) : n \in 1..Len(GradientColorLists)}
        \cup Range(InlineHex)

\* The story build_pdf assembles after the page break of the cover: its page breaks, its section headers, the
\* logo block, the swatch tables and the gradient drawings
StorySections(exists) ==
    SectionHeader("Brand Overview") \o Table("key_metrics") \o PageBreak
    \o SectionHeader("Logo") \o LogoSection(exists)
    \o <<Flowable("Paragraph", "Logo Elements")>>
    \o Table("logo_elements") \o Table("usage_guidelines") \o PageBreak
    \o SectionHeader("Color Palette")
    \o SwatchTable(1) \o SwatchTable(2) \o SwatchTable(3) \o PageBreak
    \o <<Flowable("Paragraph", "Success - Emerald Green")>>
    \o SwatchTable(4) \o SwatchTable(5) \o PageBreak
    \o SectionHeader("Gradients")
    \o GradientDrawing(1) \o GradientDrawing(2) \o GradientDrawing(3)
    \o GradientDrawing(4) \o GradientDrawing(5) \o GradientDrawing(6)
    \o Table("gradient_specs") \o PageBreak
    \o SectionHeader("Typography") \o Table("typography") \o Table("type_scale") \o PageBreak
    \o SectionHeader("Buttons & UI Components")
    \o Table("buttons") \o Table("ui_effects") \o PageBreak
    \o SectionHeader("Brand Information")
    \o Table("company") \o Table("contact") \o Table("technical") \o PageBreak
    \o SectionHeader("Asset Inventory") \o Table("assets")

\* The story without `story.append(PageBreak())` ahead of the first section
PdfStoryWithoutCoverBreak(exists) == StorySections(exists)

\* story = [] and story.append(PageBreak()), then the sections: the cover is
\* drawn by onFirstPage, the page break moves the story to page 2
PdfStory(exists) == PageBreak \o StorySections(exists)

\* Every PageBreak starts a page, so the story takes at least this many pages
MinPages(st) == 1 + Cardinality({n \in 1..Len(st) : st[n].kind = "PageBreak"})

\* Bound on the pages the story flows into
MaxPages == 11

\* Where a page can be full before the next PageBreak: after a flowable that is
\* followed by another flowable, a section header that opens the page apart
\* (a page holds more than a heading)
OverflowPoints(st) ==
    {n \in 1..(Len(st) - 1) :
        /\ st[n].kind # "PageBreak"
        /\ st[n + 1].kind # "PageBreak"
        /\ ~(st[n].kind = "SectionHeader" /\ n > 1 /\ st[n - 1].kind = "PageBreak")}

\* The page fills the layout can give: where the pages are full is the doing
\* of the layout engine, a fixed function of the story that the model leaves
\* open.  The pages the story takes beyond its page breaks are taken at
\* points that follow each other: one stretch of the story runs over.
Overflows(st) ==
    LET stretches == {p..(p + extra - 1) : p \in OverflowPoints(st),
                                            extra \in 1..(MaxPages - MinPages(st))}
    IN  {{}} \cup {o \in stretches : o \subseteq OverflowPoints(st)}

\* The story index at which the page that starts at index `from` ends: the
\* next PageBreak, the next point where the page is full, or the end of the
\* story
RECURSIVE PageEnd(_, _, _)
PageEnd(st, full, from) ==
    IF from >= Len(st) \/ st[from].kind = "PageBreak" \/ from \in full THEN from
    ELSE PageEnd(st, full, from + 1)

\* The flowables placed on a page that holds the story from `from` to `upto`
PageContent(st, from, upto) ==
    SelectSeq(SubSeq(st, from, upto), LAMBDA fl : fl.kind # "PageBreak")

\* ---------------------------------------------------------------------------
\* The run
\* ---------------------------------------------------------------------------

\* One slide as its builder leaves it
Slide(b, exists, today) ==
    [builder |-> b, background |-> Background(b), shapes |-> SlideShapes(b, exists, today),
     gradients |-> GradientsOf(b), hex_codes |-> HexCodesOf(b)]

\* prs = Presentation(): the new presentation has no slide, whatever an
\* earlier build left
NewPresentationKept(old) == old

NewPresentation(old) == <<>>

\* What json.load returns for a well-formed brand-tokens.json: the file may
\* name any colours and strings
TokenContents == {"primary #1a6ef5, version 1.0", "primary #ff0000, version 2.0"}

\* `with open(TOKENS_PATH, 'r') as f: tokens = json.load(f)` never raises
LoadOutcomeLenient(file) == "none"

\* The exception `with open(TOKENS_PATH, 'r') as f: tokens = json.load(f)`
\* raises, "none" when it raises nothing
LoadOutcome(file) ==
    CASE file = "absent" -> "FileNotFoundError"
      [] file = "malformed" -> "JSONDecodeError"
      [] OTHER -> "none"

\* File sizes os.path.getsize may report
Sizes == {256, 1536}

\* f"{file_size / 1024:.1f}": the size in tenths of a KB
SizeKB(file_size) == PyRound(file_size * 10, 1024)

Line(text, path, value) == [text |-> text, path |-> path, value |-> value]

\* The prints that end build_presentation and build_pdf
ReportLines(g, file_size) ==
    IF g = "pptx"
    THEN <<Line("Presentation generated successfully!", "", 0),
           Line("Output: ", "CredSuvidha-BrandKit.pptx", 0),
           Line("Slides: ", "", 12),
           Line("Size: KB", "", SizeKB(file_size))>>
    ELSE <<Line("PDF generated successfully!", "", 0),
           Line("Output: ", "CredSuvidha-BrandKit.pdf", 0),
           Line("Size: KB", "", SizeKB(file_size))>>

\* The file at OUTPUT_PATH after a write that raised: a failed write may have
\* left the old file, no file or a truncated one
AfterFailedWrite(old) ==
    {old, [status |-> "absent", size |-> 0], [status |-> "partial", size |-> 0]}

\* The layout the run has produced: the slides or pages, the date text taken out
Undated(shapes) ==
    [n \in 1..Len(shapes) |->
        IF shapes[n].role = "version_date" THEN [shapes[n] EXCEPT !.text = ""] ELSE shapes[n]]

Layout ==
    IF generator = "pptx"
    THEN [n \in 1..Len(slides) |-> [slides[n] EXCEPT !.shapes = Undated(slides[n].shapes)]]
    ELSE [n \in 1..Len(pages) |-> [pages[n] EXCEPT !.ops = Undated(pages[n].ops)]]

\* add_picture / drawImage can raise only when it is called, that is when the
\* logo file exists (a file that is not a readable image)
PictureRaises(exists) == exists

\* Module import of the PDF generator: the token file is loaded, then the brand
\* colour constants are defined
LoadTokens ==
    /\ generator = "pdf"
    /\ bpc = "import"
    /\ LET raised == LoadOutcome(tokens_file)
       IN  IF raised = "none"
           THEN /\ \E content \in TokenContents : tokens' = content
                /\ hex_colors' = Range(BrandColorHex)
                /\ bpc' = "story"
                /\ UNCHANGED error
           ELSE /\ error' = raised
                /\ bpc' = "failed"
                /\ UNCHANGED <<tokens, hex_colors>>
    /\ UNCHANGED <<generator, overflow, writes, logo_exists, tokens_file, step, slides, story, pages, npages,
                   output, stdout, run, first>>
    /\ UNCHANGED <<gradVars, gridVars, palVars>>

\* build_pdf up to the creation of the document: story = [] and its appends
BuildStory ==
    /\ generator = "pdf"
    /\ bpc = "story"
    /\ story' = PdfStory(logo_exists)
    /\ hex_colors' = hex_colors \cup StoryHex
    /\ pages' = <<>>
    /\ bpc' = "render"
    /\ UNCHANGED <<generator, overflow, writes, logo_exists, tokens_file, step, slides, tokens, npages,
                   output, stdout, error, run, first>>
    /\ UNCHANGED <<gradVars, gridVars, palVars>>

\* doc.build starts one page and runs its callback, or raises while reading
\* the logo
RenderPage ==
    /\ generator = "pdf"
    /\ bpc = "render"
    /\ \/ /\ LET from == IF pages = <<>> THEN 1 ELSE pages[Len(pages)].upto + 1
                 upto == PageEnd(story, overflow, from)
             IN  /\ \E today \in Dates :
                       pages' = Append(pages,
                                       [page |-> Len(pages) + 1,
                                        ops |-> PageOps(Len(pages) + 1, logo_exists, today),
                                        from |-> from, upto |-> upto])
                 /\ bpc' = IF upto >= Len(story) THEN "save" ELSE "render"
          /\ UNCHANGED error
       \/ /\ PictureRaises(logo_exists)
          /\ error' = "ImageError"
          /\ bpc' = "failed"
          /\ UNCHANGED pages
    /\ UNCHANGED <<generator, overflow, writes, hex_colors, logo_exists, tokens_file, step, slides, tokens, story, npages,
                   output, stdout, run, first>>
    /\ UNCHANGED <<gradVars, gridVars, palVars>>

\* prs = Presentation() and the slide size
StartPresentation ==
    /\ generator = "pptx"
    /\ bpc = "start"
    /\ slides' = NewPresentation(slides)
    /\ step' = 0
    /\ bpc' = "slides"
    /\ UNCHANGED <<generator, overflow, writes, hex_colors, logo_exists, tokens_file, tokens, story, pages, npages,
                   output, stdout, error, run, first>>
    /\ UNCHANGED <<gradVars, gridVars, palVars>>

\* A deck that is saved after every builder call
AfterSlideSaveEach(n) == "save"

\* Where build_presentation goes after its n-th builder call: to the next
\* builder, and to prs.save after the last
AfterSlide(n) == IF n = Len(SlideBuilders) THEN "save" ELSE "slides"

\* The next builder call of build_presentation: it adds its slide, or raises
\* while reading the logo
BuildSlide ==
    /\ generator = "pptx"
    /\ bpc = "slides"
    /\ step < Len(SlideBuilders)
    /\ \/ /\ \E today \in Dates :
                slides' = Append(slides, Slide(SlideBuilders[step + 1], logo_exists, today))
          /\ step' = step + 1
          /\ bpc' = AfterSlide(step + 1)
          /\ UNCHANGED error
       \/ /\ PictureRaises(logo_exists)
          /\ error' = "ImageError"
          /\ bpc' = "failed"
          /\ UNCHANGED <<slides, step>>
    /\ UNCHANGED <<generator, overflow, writes, hex_colors, logo_exists, tokens_file, tokens, story, pages, npages,
                   output, stdout, run, first>>
    /\ UNCHANGED <<gradVars, gridVars, palVars>>

\* A save whose error is caught and dropped: the run goes on to the report
AfterSaveSwallowed(raised) == "report"

\* Where the run goes after prs.save / doc.build: an exception leaves the
\* function, nothing catches it
AfterSave(raised) == IF raised THEN "failed" ELSE "report"

\* prs.save(OUTPUT_PATH), or the write of the PDF that ends doc.build: the
\* write succeeds or raises
SaveOutput ==
    /\ bpc = "save"
    /\ \/ /\ \E file_size \in Sizes : output' = [status |-> "complete", size |-> file_size]
          /\ bpc' = AfterSave(FALSE)
          /\ UNCHANGED error
       \/ /\ output' \in AfterFailedWrite(output)
          /\ error' = "OSError"
          /\ bpc' = AfterSave(TRUE)
    /\ writes' = writes + 1
    /\ UNCHANGED <<generator, overflow, hex_colors, logo_exists, tokens_file, step, slides, tokens, story, pages,
                   npages, stdout, run, first>>
    /\ UNCHANGED <<gradVars, gridVars, palVars>>

\* os.path.getsize(OUTPUT_PATH) and the prints
Report ==
    /\ bpc = "report"
    /\ stdout' = stdout \o ReportLines(generator, output.size)
    /\ bpc' = "done"
    /\ UNCHANGED <<generator, overflow, writes, hex_colors, logo_exists, tokens_file, step, slides, tokens, story, pages,
                   npages, output, error, run, first>>
    /\ UNCHANGED <<gradVars, gridVars, palVars>>

\* The generator is run again on the same inputs
Rebuild ==
    /\ bpc = "done"
    /\ run = 1
    /\ run' = 2
    /\ first' = [layout |-> Layout,
                 drawn |-> IF generator = "pptx" THEN slides ELSE pages,
                 hex_colors |-> hex_colors,
                 output |-> output,
                 tokens |-> tokens]
    /\ stdout' = <<>>
    /\ writes' = 0
    /\ bpc' = IF generator = "pptx" THEN "start" ELSE "import"
    /\ UNCHANGED <<generator, overflow, hex_colors, logo_exists, tokens_file, step, slides, tokens, story, pages,
                   npages, output, error>>
    /\ UNCHANGED <<gradVars, gridVars, palVars>>

InitBuild ==
    /\ generator \in {"pptx", "pdf"}
    /\ logo_exists \in BOOLEAN
    /\ tokens_file \in {"ok", "absent", "malformed"}
    /\ bpc = IF generator = "pptx" THEN "start" ELSE "import"
    /\ step = 0
    /\ slides = <<>>
    /\ tokens = "unloaded"
    /\ hex_colors = {}
    /\ story = <<>>
    /\ pages = <<>>
    /\ overflow \in IF generator = "pdf" THEN Overflows(PdfStory(logo_exists)) ELSE {{}}
    /\ npages = IF generator = "pdf"
                THEN MinPages(PdfStory(logo_exists)) + Cardinality(overflow)
                ELSE 0
    /\ output = [status |-> "absent", size |-> 0]
    /\ writes = 0
    /\ stdout = <<>>
    /\ error = "none"
    /\ run = 1
    /\ first = <<>>
    /\ GradientIdle
    /\ GridIdle
    /\ PaletteIdle

NextBuild ==
    \/ LoadTokens
    \/ BuildStory
    \/ RenderPage
    \/ StartPresentation
    \/ BuildSlide
    \/ SaveOutput
    \/ Report
    \/ Rebuild

SpecBuild == InitBuild /\ [][NextBuild]_vars

\* ---------------------------------------------------------------------------
\* Cover and recurring frame
\* ---------------------------------------------------------------------------

\* The shapes (or canvas operations) of `drawn` with the given role
WithRole(drawn, role) == {n \in 1..Len(drawn) : drawn[n].role = role}

FrameRoles == {"accent_bar", "footer_bar", "footer_tagline", "footer_domain", "slide_number"}

\* A slide is a cover when it carries the cover title
IsCoverSlide(sl) == WithRole(sl.shapes, "cover_title") # {}
IsCoverPage(pg) == WithRole(pg.ops, "cover_title") # {}

\* The slide carries the frame: a top accent bar, a footer bar with the
\* tagline left of the domain, and a slide number
SlideHasFrame(sl) ==
    /\ \E n \in WithRole(sl.shapes, "accent_bar") : sl.shapes[n].top = 0
    /\ WithRole(sl.shapes, "footer_bar") # {}
    /\ \E t \in WithRole(sl.shapes, "footer_tagline") :
       \E d \in WithRole(sl.shapes, "footer_domain") :
          /\ sl.shapes[t].text = "CredSuvidha - Trusted Partner. Swift Solutions."
          /\ sl.shapes[d].text = "www.credsuvidha.com"
          /\ sl.shapes[t].left + sl.shapes[t].width <= sl.shapes[d].left
    /\ \E n \in WithRole(sl.shapes, "slide_number") : sl.shapes[n].num > 0

\* The slide carries no part of the frame
SlideHasNoFrame(sl) == \A n \in 1..Len(sl.shapes) : sl.shapes[n].role \notin FrameRoles

\* The page carries the frame: a top accent line, a footer bar with the
\* tagline drawn from the left and the domain drawn to the right, and a page
\* number
PageHasFrame(pg) ==
    /\ \E n \in WithRole(pg.ops, "accent_line") : pg.ops[n].y > Pct(PdfLen(PAGE_HEIGHT), 90)
    /\ \E n \in WithRole(pg.ops, "footer_bar") : pg.ops[n].y = 0
    /\ \E t \in WithRole(pg.ops, "footer_tagline") :
       \E d \in WithRole(pg.ops, "footer_domain") :
          /\ pg.ops[t].text = "CredSuvidha - Trusted Partner. Swift Solutions."
          /\ pg.ops[d].text = "www.credsuvidha.com"
          /\ pg.ops[t].op = "drawString" /\ pg.ops[d].op = "drawRightString"
          /\ pg.ops[t].x < pg.ops[d].x
    /\ \E n \in WithRole(pg.ops, "page_number") : pg.ops[n].num > 0

\* The cover is the first page and no other, and every later page has the frame
PdfCoverAndFrame ==
    generator = "pdf" =>
        \A n \in 1..Len(pages) :
            /\ IsCoverPage(pages[n]) <=> n = 1
            /\ n > 1 => PageHasFrame(pages[n])

\* C11 (as stated): each document has exactly one cover, the first page or
\* slide, and every later page or slide carries the recurring frame (accent
\* line, footer bar with tagline left and domain right, page index); in the
\* deck that is every slide 2 to 12.
C11_FrameOnEveryLaterSlide ==
    /\ PdfCoverAndFrame
    /\ generator = "pptx" =>
          \A n \in 1..Len(slides) :
              /\ IsCoverSlide(slides[n]) <=> n = 1
              /\ n > 1 => SlideHasFrame(slides[n])

\* C11 (amended): each document has exactly one cover, the first page or
\* slide; every later PDF page carries the recurring frame; in the deck slides
\* 2 to 11 carry it and slide 12, the closing slide, carries no part of it.
C11_FrameOnSlides2To11 ==
    /\ PdfCoverAndFrame
    /\ generator = "pptx" =>
          \A n \in 1..Len(slides) :
              /\ IsCoverSlide(slides[n]) <=> n = 1
              /\ n \in 2..11 => SlideHasFrame(slides[n])
              /\ n = 12 => SlideHasNoFrame(slides[n])

\* The deck is built in full: twelve slides, the closing one without frame
C11_Witness ==
    /\ generator = "pptx"
    /\ bpc = "done"
    /\ Len(slides) = 12
    /\ SlideHasFrame(slides[11])
    /\ SlideHasNoFrame(slides[12])

\* The frame as drawn on a slide or page, the running index taken out
Unnumbered(drawn) == [n \in 1..Len(drawn) |-> [drawn[n] EXCEPT !.num = 0]]

IsFrameShape(sh) == sh.role \in FrameRoles \cup {"logo_header"}
IsFrameOp(o) ==
    o.role \in {"accent_line", "header_text", "logo_header", "footer_bar",
                "footer_tagline", "footer_domain", "page_number"}

SlideFrame(sl) == Unnumbered(SelectSeq(sl.shapes, IsFrameShape))
PageFrame(pg) == Unnumbered(SelectSeq(pg.ops, IsFrameOp))

\* The accent line is made of two parts of different colours
TwoColourAccent(drawn, role) ==
    \E a, b \in WithRole(drawn, role) : drawn[a].color # drawn[b].color

\* Every later page of the PDF has the same frame, with a two-colour accent line
PdfFrameIdentical ==
    generator = "pdf" =>
        \A n \in 2..Len(pages) :
            /\ PageFrame(pages[n]) = PageFrame(pages[2])
            /\ TwoColourAccent(pages[n].ops, "accent_line")

\* C12 (as stated): the recurring frame is drawn identically on every
\* non-cover page or slide: the same two-colour accent line (colours, position,
\* thickness), the same footer bar and footer strings, nothing varying but the
\* page index.
C12_FrameIdenticalOnEveryPage ==
    /\ PdfFrameIdentical
    /\ generator = "pptx" =>
          \A m, n \in 2..Len(slides) :
              /\ SlideFrame(slides[m]) = SlideFrame(slides[n])
              /\ TwoColourAccent(slides[n].shapes, "accent_bar")

\* The frame of slide 2 with the accent bar of the summary slide
SummaryFrameOf(fr) ==
    [n \in 1..Len(fr) |->
        IF fr[n].role = "accent_bar"
        THEN [fr[n] EXCEPT !.color = "NAVY_DARK", !.height = Pt(5)]
        ELSE fr[n]]

\* C12 (amended): in the PDF the frame is drawn identically on every non-cover
\* page, with a two-colour accent line, nothing varying but the page index.  In
\* the deck the frame of slides 2 to 10 is identical but for the slide number,
\* with a one-colour accent bar (BLUE_PRIMARY, 4 pt, at the top edge); the frame
\* of slide 11 differs from it in the accent bar only (NAVY_DARK, 5 pt); slide
\* 12 has no frame.
C12_FrameIdenticalButSummary ==
    /\ PdfFrameIdentical
    /\ generator = "pptx" =>
          /\ \A m, n \in 2..Len(slides) :
                (m <= 10 /\ n <= 10) =>
                    /\ SlideFrame(slides[m]) = SlideFrame(slides[n])
                    /\ \A a \in WithRole(slides[n].shapes, "accent_bar") :
                          /\ slides[n].shapes[a].color = "BLUE_PRIMARY"
                          /\ slides[n].shapes[a].height = Pt(4)
                          /\ slides[n].shapes[a].top = 0
          /\ Len(slides) >= 11 =>
                /\ SlideFrame(slides[11]) = SummaryFrameOf(SlideFrame(slides[2]))
                /\ SlideFrame(slides[11]) # SlideFrame(slides[2])
          /\ Len(slides) >= 12 => SlideFrame(slides[12]) = <<>>

\* The summary slide has been built after the other framed slides
C12_Witness ==
    /\ generator = "pptx"
    /\ Len(slides) >= 11
    /\ SlideFrame(slides[2]) = SlideFrame(slides[10])
    /\ SlideFrame(slides[11]) # SlideFrame(slides[10])

\* ---------------------------------------------------------------------------
\* Running index
\* ---------------------------------------------------------------------------

\* The page shows its own number and no total
PdfPageNumbers ==
    generator = "pdf" =>
        \A n \in 2..Len(pages) :
            /\ WithRole(pages[n].ops, "page_number") # {}
            /\ \A o \in WithRole(pages[n].ops, "page_number") :
                  /\ pages[n].ops[o].num = n
                  /\ pages[n].ops[o].text = "Page "

\* The slide shows "n/total", n its position and total the number of slides
\* of the deck
ShowsIndexOfTotal(drawn, role, n, total) ==
    \E o \in WithRole(drawn, role) :
        /\ drawn[o].num = n
        /\ drawn[o].total = total

\* C13 (as stated): in both generators every non-cover page or slide shows its
\* running index together with the total number of pages or slides.
C13_IndexOutOfTotalEverywhere ==
    /\ generator = "pdf" =>
          \A n \in 2..Len(pages) : ShowsIndexOfTotal(pages[n].ops, "page_number", n, npages)
    /\ generator = "pptx" =>
          \A n \in 2..Len(slides) :
              ShowsIndexOfTotal(slides[n].shapes, "slide_number", n, Len(SlideBuilders))

\* C13 (amended): in the deck every slide 2 to 11 shows its position together
\* with the total 12 ("n/12") and slide 12 shows no number; in the PDF every
\* non-cover page shows its page number ("Page n") and no total.
C13_IndexOutOfTotalOnSlides2To11 ==
    /\ PdfPageNumbers
    /\ generator = "pdf" =>
          \A n \in 2..Len(pages) :
              \A o \in 1..Len(pages[n].ops) : pages[n].ops[o].total = 0
    /\ generator = "pptx" =>
          \A n \in 1..Len(slides) :
              /\ n \in 2..11 =>
                    /\ ShowsIndexOfTotal(slides[n].shapes, "slide_number", n, Len(SlideBuilders))
                    /\ Cardinality(WithRole(slides[n].shapes, "slide_number")) = 1
              /\ n = 12 => WithRole(slides[n].shapes, "slide_number") = {}

\* Both the last numbered slide and the closing slide are built
C13_Witness ==
    /\ generator = "pptx"
    /\ Len(slides) = 12
    /\ ShowsIndexOfTotal(slides[11].shapes, "slide_number", 11, 12)

\* ---------------------------------------------------------------------------
\* Logo file absent
\* ---------------------------------------------------------------------------

NotGuarded(d) == ~d.guarded

\* An operation that reads the image at LOGO_PATH
IsLogoImage(d) == d.text = "LOGO_PATH"

\* A run that failed did so in the token load or in the write of the output,
\* after every slide or page was drawn
FailedOnlyInLoadOrWrite ==
    bpc = "failed" =>
        \/ generator = "pdf" /\ tokens = "unloaded" /\ tokens_file # "ok"
        \/ /\ error = "OSError"
           /\ generator = "pptx" => Len(slides) = Len(SlideBuilders)
           /\ generator = "pdf" => Len(pages) = npages

\* C14: with the logo file absent each generator builds and writes its output
\* without an error from the logo, no image operation on the logo path is
\* performed, and every slide, page and the story hold exactly what they hold
\* with the logo present less the blocks under the logo test (cover, header,
\* logo-guidelines section, closing slide).
C14_LogoAbsentSkipsLogoSites ==
    ~logo_exists =>
        /\ \A n \in 1..Len(slides) :
              /\ \A k_ \in 1..Len(slides[n].shapes) :
                    /\ ~IsLogoImage(slides[n].shapes[k_])
                    /\ slides[n].shapes[k_].kind # "picture"
              /\ Undated(slides[n].shapes)
                   = Undated(SelectSeq(SlideShapes(slides[n].builder, TRUE, ""), NotGuarded))
        /\ \A n \in 1..Len(pages) :
              /\ \A k_ \in 1..Len(pages[n].ops) :
                    /\ ~IsLogoImage(pages[n].ops[k_])
                    /\ pages[n].ops[k_].op # "drawImage"
              /\ Undated(pages[n].ops)
                   = Undated(SelectSeq(PageOps(n, TRUE, ""), NotGuarded))
        /\ \A n \in 1..Len(story) : ~IsLogoImage(story[n]) /\ story[n].kind # "Image"
        /\ bpc \in {"render", "save", "report", "done"} /\ generator = "pdf" =>
              story = SelectSeq(PdfStory(TRUE), NotGuarded)
        /\ FailedOnlyInLoadOrWrite
        /\ bpc = "done" => error = "none" /\ output.status = "complete"

\* A build without logo has run to its end: all slides or pages are drawn and
\* the output is written
C14_Witness ==
    /\ ~logo_exists
    /\ bpc = "done"
    /\ output.status = "complete"
    /\ Len(slides) = Len(SlideBuilders) \/ (npages > 0 /\ Len(pages) = npages)

\* ---------------------------------------------------------------------------
\* Token file absent or malformed
\* ---------------------------------------------------------------------------

\* Nothing is built, written or printed
NothingBuilt ==
    /\ slides = <<>> /\ story = <<>> /\ pages = <<>>
    /\ output.status = "absent"
    /\ stdout = <<>>

\* C15 (as stated): for either generator, a token file that is absent or
\* malformed aborts the build with the read or parse failure: no slide or page
\* is built, no output is written, no success message is printed.
C15_TokenFailureAbortsEitherGenerator ==
    tokens_file # "ok" =>
        /\ NothingBuilt
        /\ bpc = "failed" => error = LoadOutcome(tokens_file)

\* C15 (amended): a token file that is absent or malformed aborts the PDF
\* generator when the module is loaded, with the read or parse failure
\* (FileNotFoundError, JSONDecodeError): no page is built, no output is written,
\* no success message is printed.  The slide generator never reads the token
\* file: whatever the state of the file, it loads no token and raises no read
\* or parse failure.
C15_TokenFailureAbortsPdfOnly ==
    /\ (generator = "pdf" /\ tokens_file # "ok") =>
          /\ NothingBuilt
          /\ tokens = "unloaded"
          /\ bpc \in {"import", "failed"}
          /\ bpc = "failed" =>
                error = IF tokens_file = "absent" THEN "FileNotFoundError" ELSE "JSONDecodeError"
    /\ (generator = "pdf" /\ bpc \notin {"import", "failed"}) => tokens \in TokenContents
    /\ generator = "pptx" =>
          /\ tokens = "unloaded"
          /\ error \in {"none", "OSError", "ImageError"}

\* The PDF generator has stopped on a malformed token file
C15_Witness ==
    /\ generator = "pdf"
    /\ tokens_file = "malformed"
    /\ bpc = "failed"
    /\ error = "JSONDecodeError"

\* ---------------------------------------------------------------------------
\* Gradient data
\* ---------------------------------------------------------------------------

\* The stop fractions are well-formed: each in (0, 1] and summing to 1.0
\* (fractions in hundredths)
WellFormed(fractions) ==
    /\ \A n \in 1..Len(fractions) : fractions[n] > 0 /\ fractions[n] <= 100
    /\ SumSeq(fractions) = 100

\* C16: a gradient whose stop fractions are malformed (one not in (0, 1], or
\* a sum other than 1.0) is rejected with a configuration error before any of
\* its segments is drawn.
C16_MalformedGradientRejected ==
    (generator = "pptx" /\ card \in SlideCards /\ ~WellFormed(Fractions(color_stops))) =>
        /\ segs = <<>>
        /\ k = 0

\* C17: every gradient of the slide generator's data is well-formed: each stop
\* fraction is in (0, 1] and the fractions of each gradient sum to exactly 1.0
\* (100 hundredths).
C17_GradientDataWellFormed ==
    generator = "pptx" =>
        \A n \in 1..Len(slides) :
            \A g \in 1..Len(slides[n].gradients) :
                WellFormed(Fractions(slides[n].gradients[g].color_stops))

\* The gradients slide is built: it holds the six gradients, the three-stop
\* ones among them, and has drawn their fourteen segments
C17_Witness ==
    /\ generator = "pptx"
    /\ Len(slides) >= 5
    /\ Len(slides[5].gradients) = 6
    /\ \E g \in 1..6 : Len(slides[5].gradients[g].color_stops) = 3
    /\ Cardinality(WithRole(slides[5].shapes, "gradient_segment")) = 14

\* ---------------------------------------------------------------------------
\* Hex colour strings
\* ---------------------------------------------------------------------------

HexChars == Range(DecimalDigits) \cup Range(LowerLetters) \cup Range(UpperLetters)

IsHexChar(c) == c \in HexChars

\* '#' followed by exactly six hexadecimal digits
IsHexString(h) ==
    /\ Len(h) = 7
    /\ h[1] = "#"
    /\ \A n \in 2..7 : IsHexChar(h[n])

\* The hex strings of the PDF generator that are '#' and six hexadecimal
\* digits, and that HexColor turns into a 24-bit value
WellFormedHex ==
    {h \in Range(BrandColorHex) \cup StoryHex :
        IsHexString(h) /\ HexColor(h) \in 0..16777215}

\* C18: every colour hex string a generator uses (the brand colour constants,
\* the palette triples, the swatch lists, the gradient colour lists) is '#'
\* followed by exactly six hexadecimal digits, so the slide generator's parse
\* of characters 1-2, 3-4 and 5-6 gives three values in 0..255 (and HexColor
\* a 24-bit value).
C18_HexStringsWellFormed ==
    /\ hex_colors \subseteq WellFormedHex
    /\ \A n \in 1..Len(story) : Range(story[n].hex) \subseteq WellFormedHex
    /\ \A n \in 1..Len(slides) :
          /\ \A j \in 1..Len(slides[n].hex_codes) :
                /\ IsHexString(slides[n].hex_codes[j])
                /\ RGBColor(slides[n].hex_codes[j]) \in (0..255) \X (0..255) \X (0..255)
          /\ \A j \in WithRole(slides[n].shapes, "swatch") :
                slides[n].shapes[j].rgb \in (0..255) \X (0..255) \X (0..255)

\* The palette slide is built: its 23 hex codes are parsed, #142857 into
\* (20, 40, 87) and #FAF6F1 into (250, 246, 241)
C18_Witness ==
    /\ generator = "pptx"
    /\ Len(slides) >= 4
    /\ Len(slides[4].hex_codes) = 23
    /\ Cardinality(WithRole(slides[4].shapes, "swatch")) = 23
    /\ \E j \in WithRole(slides[4].shapes, "swatch") : slides[4].shapes[j].rgb = <<20, 40, 87>>
    /\ \E j \in WithRole(slides[4].shapes, "swatch") : slides[4].shapes[j].rgb = <<250, 246, 241>>

\* ---------------------------------------------------------------------------
\* The report
\* ---------------------------------------------------------------------------

\* The whole document is built
BuildComplete ==
    IF generator = "pptx" THEN Len(slides) = Len(SlideBuilders)
    ELSE npages > 0 /\ Len(pages) = npages

\* C19: a generator prints the success message, the output path and the file
\* size in KB only after the whole build is done and the output file is
\* completely written, and prints nothing when the build or the write raised.
C19_ReportOnlyAfterCompleteWrite ==
    /\ stdout # <<>> =>
          /\ BuildComplete
          /\ output.status = "complete"
          /\ error = "none"
          /\ bpc = "done"
          /\ \E n \in 1..Len(stdout) : stdout[n].text = "Output: " /\ stdout[n].path # ""
          /\ stdout[Len(stdout)].text = "Size: KB"
          /\ stdout[Len(stdout)].value = SizeKB(output.size)
    /\ bpc = "failed" => stdout = <<>>
    /\ bpc = "done" => stdout # <<>>

\* A run has printed its report for a file of 1536 bytes: "Size: 1.5 KB"
C19_Witness ==
    /\ bpc = "done"
    /\ output = [status |-> "complete", size |-> 1536]
    /\ stdout # <<>>
    /\ stdout[Len(stdout)].value = 15

\* ---------------------------------------------------------------------------
\* Building twice
\* ---------------------------------------------------------------------------

OutputAtStart == IF run = 1 THEN [status |-> "absent", size |-> 0] ELSE first.output

\* C21: each generator assembles its whole document in memory (the twelve
\* slides, or the full story and its pages) before the output path is opened
\* for writing, and writes once per build; an error raised while the content
\* is assembled leaves the output file of an earlier build as it was.
C21_AssembleThenWriteOnce ==
    /\ writes <= 1
    /\ writes = 1 =>
          /\ BuildComplete
          /\ generator = "pdf" => story = PdfStory(logo_exists)
    /\ bpc = "done" => writes = 1
    /\ writes = 0 => output = OutputAtStart
    /\ (bpc = "failed" /\ error # "OSError") => writes = 0 /\ output = OutputAtStart

\* A second build has failed on the logo while assembling, and the file the
\* first build wrote is still there
C21_Witness ==
    /\ run = 2
    /\ bpc = "failed"
    /\ error = "ImageError"
    /\ ~BuildComplete
    /\ output.status = "complete"
    /\ output = first.output

\* ---------------------------------------------------------------------------
\* The twelve slides
\* ---------------------------------------------------------------------------

\* The title each slide shows, in the order of the deck
DeckTitles ==
    <<"Brand Kit", "Brand Overview", "Logo", "Color Palette", "Gradients", "Typography",
      "Buttons & UI Components", "Brand Values", "Contact & Compliance",
      "Technical Specifications", "Key Takeaways", "Thank You">>

ShowsTitle(sl, text) ==
    \E n \in 1..Len(sl.shapes) :
        /\ sl.shapes[n].role \in {"cover_title", "title", "closing_title"}
        /\ sl.shapes[n].text = text

\* C22: the deck has exactly 12 slides, built in the order title, overview,
\* logo, colour palette, gradients, typography, buttons/UI, brand values,
\* contact/compliance, technical, summary, thank-you; a slide that shows a
\* slide number shows n/12 with n its position in the deck; the printed slide
\* count, 12, is the number of slides built.
C22_TwelveSlidesInOrder ==
    generator = "pptx" =>
        /\ Len(slides) <= 12
        /\ bpc \in {"save", "report", "done"} => Len(slides) = 12
        /\ \A n \in 1..Len(slides) :
              /\ n <= 12 => ShowsTitle(slides[n], DeckTitles[n])
              /\ \A j \in WithRole(slides[n].shapes, "slide_number") :
                    /\ slides[n].shapes[j].num = n
                    /\ slides[n].shapes[j].total = 12
        /\ \A n \in 1..Len(stdout) :
              stdout[n].text = "Slides: " => stdout[n].value = Len(slides)
        /\ stdout # <<>> => \E n \in 1..Len(stdout) : stdout[n].text = "Slides: "

\* The deck is built and reported
C22_Witness ==
    /\ generator = "pptx"
    /\ bpc = "done"
    /\ Len(slides) = 12
    /\ \E n \in 1..Len(stdout) : stdout[n].text = "Slides: " /\ stdout[n].value = 12

\* ---------------------------------------------------------------------------
\* C23: the cover page holds the cover and nothing else
\* ---------------------------------------------------------------------------

\* The canvas operations of the cover routine
IsCoverOp(o) == ~IsFrameOp(o)

\* The story index of the first section heading, 0 when there is none
FirstSectionHeader(st) ==
    LET at == {n \in 1..Len(st) : st[n].kind = "SectionHeader"}
    IN  IF at = {} THEN 0 ELSE CHOOSE n \in at : \A m \in at : n <= m

\* C23: in the PDF build the cover routine draws on page 1 and on no other
\* page, the header/footer routine draws on every page from page 2 on and
\* never on page 1, no story content is placed on page 1, and the first section
\* heading of the story is placed on page 2.
C23_CoverPageHoldsNoStory ==
    generator = "pdf" =>
        \A n \in 1..Len(pages) :
            /\ (\E j \in 1..Len(pages[n].ops) : IsCoverOp(pages[n].ops[j])) <=> n = 1
            /\ (\E j \in 1..Len(pages[n].ops) : IsFrameOp(pages[n].ops[j])) <=> n >= 2
            /\ n = 1 => PageContent(story, pages[n].from, pages[n].upto) = <<>>
            /\ (/\ pages[n].from <= FirstSectionHeader(story)
                /\ FirstSectionHeader(story) <= pages[n].upto) => n = 2

\* The PDF is built, the first section heading is on its second page, and a
\* page was full before its page break
C23_Witness ==
    /\ generator = "pdf"
    /\ bpc = "done"
    /\ Len(pages) > MinPages(story)
    /\ FirstSectionHeader(story) = 2
    /\ pages[2].from <= 2 /\ 2 <= pages[2].upto
    /\ PageContent(story, pages[2].from, pages[2].upto) # <<>>

\* ---------------------------------------------------------------------------
\* C24: create_gradient_drawing tiles its width with equal rectangles
\* ---------------------------------------------------------------------------

\* C24: for a non-empty colour list of length N and width w (the content
\* width when no width or a width of 0 is given) create_gradient_drawing emits
\* N rectangles of width w/N, rectangle i (0-based) starting at i * (w/N), the
\* last one ending at w; for an empty colour list it raises an error and
\* returns no drawing.
C24_EqualRectanglesTileWidth ==
    (generator = "pdf" /\ pdfpc \in {"returned", "raised"}) =>
        LET N == Len(colors)
            w == IF width = 0 THEN PAGE_WIDTH - MARGIN_LEFT - MARGIN_RIGHT ELSE width
        IN  /\ pdfpc = "raised" <=> N = 0
            /\ pdfpc = "raised" => drawing = <<>>
            /\ pdfpc = "returned" =>
                  /\ Len(drawing) = N
                  /\ \A j \in 1..Len(drawing) :
                        /\ drawing[j].width.num * N = w * drawing[j].width.den
                        /\ drawing[j].x.num * N = (j - 1) * w * drawing[j].x.den
                  /\ Len(drawing) = N =>
                        FracEq(FracAdd(drawing[N].x, drawing[N].width), Frac(w, 1))

\* A three-colour drawing made without a width
C24_Witness ==
    /\ generator = "pdf"
    /\ pdfpc = "returned"
    /\ width = 0
    /\ Len(drawing) = 3
    /\ drawing[3].x.num > 0

\* The call with an empty colour list has raised
C24_WitnessEmpty == generator = "pdf" /\ pdfpc = "raised" /\ colors = <<>>

\* ---------------------------------------------------------------------------
\* C25: truncated segments stay inside the gradient card
\* ---------------------------------------------------------------------------

\* The segment loop has run to its end on a gradient with at least one stop
LoopDone ==
    /\ generator = "pptx"
    /\ Len(color_stops) > 0
    /\ k = Len(color_stops)

\* The strip of the card right of the last segment
UncoveredStrip == card.card_w - SumSeq(Widths(segs))

\* C25 (as stated): with each segment width W * fraction truncated to an
\* integer, for every gradient whose fractions sum to at most 1 the widths sum
\* to at most W and the uncovered strip at the right edge is narrower than N
\* length units for an N-stop gradient.
C25_StripNarrowerThanStopsUpToUnitSum ==
    (LoopDone /\ SumSeq(Fractions(color_stops)) <= 100) =>
        /\ SumSeq(Widths(segs)) <= card.card_w
        /\ UncoveredStrip < Len(color_stops)

\* C25 (amended): for every gradient whose fractions sum to at most 1 the
\* widths sum to at most W, and for every gradient whose fractions sum to
\* exactly 1 the uncovered strip at the right edge is narrower than N length
\* units for an N-stop gradient.
C25_StripNarrowerThanStopsOnUnitSum ==
    /\ (LoopDone /\ SumSeq(Fractions(color_stops)) <= 100) =>
          /\ SumSeq(Widths(segs)) <= card.card_w
          /\ segs[Len(segs)].left + segs[Len(segs)].width <= card.x + card.card_w
    /\ (LoopDone /\ SumSeq(Fractions(color_stops)) = 100) =>
          UncoveredStrip < Len(color_stops)

\* A 0.33/0.34/0.33 gradient drawn on a card of the slide leaves a strip
C25_Witness ==
    /\ LoopDone
    /\ card \in SlideCards
    /\ Fractions(color_stops) = <<33, 34, 33>>
    /\ UncoveredStrip > 0
    /\ UncoveredStrip < 3

\* ---------------------------------------------------------------------------
\* C26: the token file has no influence on the PDF
\* ---------------------------------------------------------------------------

\* C26: the contents of the brand token file have no influence on the
\* generated PDF: two builds that load two well-formed token files produce the
\* same pages with the same shapes, colours and text (the date apart, which
\* comes from the clock), the same story and the same set of colour strings.
C26_TokensDoNotInfluencePdf ==
    (/\ generator = "pdf"
     /\ run = 2
     /\ bpc \in {"save", "report", "done"}
     /\ first.tokens \in TokenContents
     /\ tokens \in TokenContents) =>
        /\ Len(pages) = Len(first.drawn)
        /\ \A n \in 1..Len(pages) :
              n <= Len(first.drawn) =>
                  /\ Undated(pages[n].ops) = Undated(first.drawn[n].ops)
                  /\ PageContent(story, pages[n].from, pages[n].upto)
                        = PageContent(PdfStory(logo_exists), first.drawn[n].from,
                                      first.drawn[n].upto)
        /\ hex_colors = first.hex_colors

\* Two PDF builds have loaded token files with different contents
C26_Witness ==
    /\ generator = "pdf"
    /\ run = 2
    /\ bpc = "done"
    /\ first.tokens \in TokenContents
    /\ tokens \in TokenContents
    /\ tokens # first.tokens
    /\ Len(pages) >= 10

\* ---------------------------------------------------------------------------
\* C27: the deck and the PDF show the same palette
\* ---------------------------------------------------------------------------

\* The hex texts a slide shows for family f, in drawing order, in upper case
DeckHex(sl, f) ==
    LET texts == SelectSeq(sl.shapes,
                           LAMBDA s : s.role = "swatch_hex" /\ s.top = HexLabelTop(f))
    IN  [n \in 1..Len(texts) |-> Upper(texts[n].hex)]

\* The hex values of palette table n of the PDF, in row order, in upper case
TableHex(n) == [j \in 1..Len(PaletteLists[n]) |-> Upper(PaletteLists[n][j])]

\* Sequence s without its element at position p
Without(s, p) == SubSeq(s, 1, p - 1) \o SubSeq(s, p + 1, Len(s))

\* The palette slides of the deck built so far
PaletteSlides ==
    {n \in 1..Len(slides) : slides[n].builder = "build_color_palette_slide"}

\* C27: for each colour family shown by both generators (brand
\* blue, logo colours, accent orange, emerald green) the slide deck shows the
\* same hex values in the same order as the corresponding PDF palette table,
\* compared case-insensitively.
C27_DeckShowsPdfPalette ==
    generator = "pptx" =>
        \A n \in PaletteSlides :
            /\ DeckHex(slides[n], "brand_blues") = TableHex(1)
            /\ DeckHex(slides[n], "logo_colors") = TableHex(2)
            /\ DeckHex(slides[n], "accent_colors") = TableHex(3)
            /\ DeckHex(slides[n], "emerald_colors") = TableHex(4)

\* What the code does give: the deck shows the same hex values in the same
\* order as the PDF palette table for the logo colours, accent orange and
\* emerald green, and for brand blue the values of the table without its
\* tenth, #d9edff (100 Wash), compared case-insensitively.
C27_DeckShowsPdfPaletteButWash ==
    generator = "pptx" =>
        \A n \in PaletteSlides :
            /\ Len(TableHex(1)) = 11
            /\ TableHex(1)[10] = Upper(<<"#", "d", "9", "e", "d", "f", "f">>)
            /\ DeckHex(slides[n], "brand_blues") = Without(TableHex(1), 10)
            /\ DeckHex(slides[n], "logo_colors") = TableHex(2)
            /\ DeckHex(slides[n], "accent_colors") = TableHex(3)
            /\ DeckHex(slides[n], "emerald_colors") = TableHex(4)

\* The palette slide is built and shows ten brand blues and six accents
C27_Witness ==
    /\ generator = "pptx"
    /\ PaletteSlides = {4}
    /\ Len(DeckHex(slides[4], "brand_blues")) = 10
    /\ Len(DeckHex(slides[4], "accent_colors")) = 6

\* ---------------------------------------------------------------------------
\* C28: the columns of every table fill the content width
\* ---------------------------------------------------------------------------

\* The flowables of the story that are tables with explicit column widths
TablesOf(st) == {n \in 1..Len(st) : st[n].text \in MultiColumnTables /\ st[n].colWidths # <<>>}

\* C28: for every table the PDF generator builds with explicit column widths
\* (palette, logo elements, usage guidelines, key metrics, gradient specs,
\* typography, type scale, buttons, UI effects, company, contact, technical,
\* assets) the column widths sum to the content width, page width minus the
\* left and right margins, and every column, the residual last one included,
\* is wider than 0.
C28_ColumnsFillContentWidth ==
    generator = "pdf" =>
        /\ \A n \in TablesOf(story) :
              /\ SumSeq(story[n].colWidths) = PdfLen(PAGE_WIDTH - MARGIN_LEFT - MARGIN_RIGHT)
              /\ \A j \in 1..Len(story[n].colWidths) : story[n].colWidths[j] > 0
        /\ story # <<>> => {story[n].text : n \in TablesOf(story)} = MultiColumnTables

\* The story is built with its seventeen multi-column tables, the five-column
\* button table among them
C28_Witness ==
    /\ generator = "pdf"
    /\ bpc = "done"
    /\ Cardinality(TablesOf(story)) = 17
    /\ \E n \in TablesOf(story) : story[n].text = "buttons" /\ Len(story[n].colWidths) = 5

\* ---------------------------------------------------------------------------
\* C29: every shape lies inside the slide
\* ---------------------------------------------------------------------------

\* prs.slide_width = Inches(13.333), prs.slide_height = Inches(7.5)
slide_width == InchesK(13333)
slide_height == Inches(750)

\* The shape lies inside the slide rectangle
InsideSlide(s) ==
    /\ s.left >= 0
    /\ s.top >= 0
    /\ s.left + s.width <= slide_width
    /\ s.top + s.height <= slide_height

\* C29: every shape and text box the slide generator places on any slide lies
\* entirely inside the slide rectangle: left >= 0, top >= 0,
\* left + width <= 13.333 in and top + height <= 7.5 in.
C29_ShapesInsideSlide ==
    generator = "pptx" =>
        \A n \in 1..Len(slides) :
            \A j \in 1..Len(slides[n].shapes) : InsideSlide(slides[n].shapes[j])

\* What the code does give: the three "Don't" items of the logo slide are the
\* only shapes that leave the slide, by 0.067 in at the right edge
C29_OnlyDontItemsLeaveSlide ==
    generator = "pptx" =>
        \A n \in 1..Len(slides) :
            \A j \in 1..Len(slides[n].shapes) :
                \/ InsideSlide(slides[n].shapes[j])
                \/ /\ slides[n].builder = "build_logo_slide"
                   /\ slides[n].shapes[j].role = "dont_item"
                   /\ slides[n].shapes[j].left + slides[n].shapes[j].width
                         = slide_width + 61265

\* ---------------------------------------------------------------------------
\* C30: the spec cards and the asset-inventory box
\* ---------------------------------------------------------------------------

\* assets_box = add_shape_with_fill(slide, Inches(0.8), Inches(6.0),
\*                                  Inches(11.7), Inches(0.6), BLUE_TINT)
assets_box == [x |-> Inches(80), y |-> Inches(600), w |-> Inches(1170), h |-> Inches(60)]

\* The six spec cards of the Technical Specifications slide are placed
SpecCardsPlaced == grid = "specs" /\ HardcodedList /\ idx = items

\* C30: on the Technical Specifications slide the 3-column grid of six spec
\* cards does not overlap the asset-inventory box drawn below it: the bottom
\* edge of the second row of cards (grid origin y + cell height + gutter +
\* cell height) is at or above the top edge of the asset-inventory box.
C30_SpecCardsAboveAssetsBox ==
    SpecCardsPlaced =>
        /\ Len(placed) = 6
        /\ \A j \in 1..Len(placed) : placed[j].y + placed[j].h <= assets_box.y
        /\ Inches(165) + Inches(210) + Inches(25) + Inches(210) <= assets_box.y

\* What the code does give: the first row of cards ends above the box and
\* the second row reaches 0.1 in into it
C30_SecondRowReachesIntoAssetsBox ==
    SpecCardsPlaced =>
        /\ Len(placed) = 6
        /\ \A j \in 1..3 : placed[j].y + placed[j].h <= assets_box.y
        /\ \A j \in 4..6 : /\ placed[j].y + placed[j].h = assets_box.y + Inches(10)
                            /\ placed[j].y < assets_box.y
                            /\ placed[j].x < assets_box.x + assets_box.w
                            /\ placed[j].x + placed[j].w > assets_box.x

====
